---- MODULE Spec2Model ----
(***************************************************************************)
(* The transaction pool of core/src/transaction_pool/                      *)
(* transaction_pool_inner.rs: DeferredPool, ReadyAccountPool and           *)
(* TransactionPoolInner, with the NoncePool, the GarbageCollector and the  *)
(* account-state oracle they use.                                          *)
(***************************************************************************)
EXTENDS Integers, Sequences, FiniteSets, TLC

VARIABLES
    capacity,                    \* TransactionPoolInner.capacity
    total_received_count,        \* TransactionPoolInner.total_received_count
    unpacked_transaction_count,  \* TransactionPoolInner.unpacked_transaction_count
    deferred_pool,               \* DeferredPool.buckets: sender -> (nonce -> TxWithReadyInfo)
    ready_account_pool,          \* ReadyAccountPool.treap: sender -> [tx, weight]
    ready_nonces_and_balances,   \* sender -> <<nonce, balance>>
    garbage_collector,           \* sender -> [count, timestamp]
    txs,                         \* hash -> transaction
    tx_sponsored_gas_map,        \* hash -> <<sponsored_gas, sponsored_storage>>
    underflow,                   \* a checked_sub of unpacked_transaction_count took its None branch
    panic,                       \* "" or the panic that stopped the program
    now,                         \* the clock get_current_timestamp reads
    packing,                     \* <<>> when idle, else <<the locals of the running pack_transactions>>
    last                         \* the operation that completed last, and how it ended

poolVars == <<capacity, total_received_count, unpacked_transaction_count, deferred_pool,
              ready_account_pool, ready_nonces_and_balances, garbage_collector, txs,
              tx_sponsored_gas_map, underflow, panic>>

vars == <<capacity, total_received_count, unpacked_transaction_count, deferred_pool,
          ready_account_pool, ready_nonces_and_balances, garbage_collector, txs,
          tx_sponsored_gas_map, underflow, panic, now, packing, last>>

-----------------------------------------------------------------------------
(* Bounds of the model. *)

MaxCapacity == 2
MaxNumTxs == 2

Senders == {"alice", "bob"}
\* <<sender, nonce, gas_price>> of the transactions that can be submitted.
TxShapes == {<<"alice", 0, 1>>, <<"alice", 0, 2>>, <<"alice", 1, 1>>,
             <<"bob", 0, 1>>, <<"bob", 0, 2>>}
\* The transactions that are an Action::Call to a contract address.
ContractCalls == {<<"alice", 0, 1>>}
\* What the account-state oracle can answer.
StateNonces == {0, 1}
Balances == {2}
\* <<num_txs, block_gas_limit, block_size_limit>> of a pack_transactions call.
PackArgs == {<<n, 2, 2>> : n \in 0..MaxNumTxs} \cup {<<MaxNumTxs, 1, 2>>, <<MaxNumTxs, 2, 1>>}

(* Program constants. *)
FURTHEST_FUTURE_TRANSACTION_NONCE_OFFSET == 2000
GC_CHECK_COUNT == 5
BIG_TX_RESAMPLE_TIMES_LIMIT == 10
tx_weight_scaling == 1
tx_weight_exp == 1
DRIPS_PER_STORAGE_COLLATERAL_UNIT == 1

-----------------------------------------------------------------------------
(* Option<T>: None is the empty sequence, Some(x) the one-element one. *)

None == << >>
Some(x) == <<x>>
IsSome(o) == Len(o) = 1
Unwrap(o) == o[1]

\* f with key k set to v (HashMap::insert), and with key k removed (HashMap::remove).
MapPut(f, k, v) == [x \in DOMAIN f \cup {k} |-> IF x = k THEN v ELSE f[x]]
MapDel(f, k) == [x \in DOMAIN f \ {k} |-> f[x]]
EmptyMap == [x \in {} |-> 0]

-----------------------------------------------------------------------------
(* SignedTransaction.  The hash is a function of the signed content, so two  *)
(* transactions are equal exactly when their hashes are.                     *)

Hash(s, n, g) == <<s, n, g>>

SignedTransaction(s, n, g) ==
    [hash |-> Hash(s, n, g), sender |-> s, nonce |-> n, gas_price |-> g,
     gas |-> 1, value |-> 0, storage_limit |-> 0, rlp_size |-> 1,
     contract_call |-> (<<s, n, g>> \in ContractCalls)]

TxUniverse == {SignedTransaction(t[1], t[2], t[3]) : t \in TxShapes}

TxWithReadyInfo(tx, packed, sponsored_gas, sponsored_storage) ==
    [transaction |-> tx, packed |-> packed,
     sponsored_gas |-> sponsored_gas, sponsored_storage |-> sponsored_storage]

\* The balance an entry needs: value + gas_price * (gas - sponsored_gas)
\*   + DRIPS_PER_STORAGE_COLLATERAL_UNIT * (storage_limit - sponsored_storage).
get_tx_cost(e) ==
    e.transaction.value
    + e.transaction.gas_price * (e.transaction.gas - e.sponsored_gas)
    + DRIPS_PER_STORAGE_COLLATERAL_UNIT * (e.transaction.storage_limit - e.sponsored_storage)

-----------------------------------------------------------------------------
(* NoncePool: nonce -> TxWithReadyInfo. *)

NewAdded == [kind |-> "NewAdded", replaced |-> None, min_gas_price |-> 0]
Updated(prev) == [kind |-> "Updated", replaced |-> Some(prev), min_gas_price |-> 0]
Failed(g) == [kind |-> "Failed", replaced |-> None, min_gas_price |-> g]
PoolFull == [kind |-> "PoolFull", replaced |-> None, min_gas_price |-> 0]

should_replace(entry, prev, force) ==
    force \/ entry.transaction.gas_price > prev.transaction.gas_price

\* A faulty variant of NoncePool_insert: an entry below the highest nonce of
\* the bucket is refused.
NoncePool_insert_ascending_only(bucket, entry, force) ==
    IF \E n \in DOMAIN bucket : n > entry.transaction.nonce
    THEN [bucket |-> bucket, result |-> Failed(0)]
    ELSE [bucket |-> MapPut(bucket, entry.transaction.nonce, entry), result |-> NewAdded]

NoncePool_insert(bucket, entry, force) ==
    LET n == entry.transaction.nonce IN
    IF n \notin DOMAIN bucket
    THEN [bucket |-> MapPut(bucket, n, entry), result |-> NewAdded]
    ELSE IF should_replace(entry, bucket[n], force)
         THEN [bucket |-> MapPut(bucket, n, entry), result |-> Updated(bucket[n])]
         ELSE [bucket |-> bucket, result |-> Failed(bucket[n].transaction.gas_price)]

LowestNonce(bucket) == CHOOSE n \in DOMAIN bucket : \A m \in DOMAIN bucket : n <= m

NoncePool_count_less(bucket, nonce) == Cardinality({n \in DOMAIN bucket : n < nonce})

\* The walk of the contiguous run from `nonce`: `left` is the balance not yet
\* used by the entries passed.
RECURSIVE ReadyWalk(_, _, _)
ReadyWalk(bucket, nonce, left) ==
    IF nonce \notin DOMAIN bucket THEN None
    ELSE IF get_tx_cost(bucket[nonce]) > left THEN None
    ELSE IF ~bucket[nonce].packed THEN Some(bucket[nonce].transaction)
    ELSE ReadyWalk(bucket, nonce + 1, left - get_tx_cost(bucket[nonce]))

NoncePool_recalculate_readiness_with_local_info(bucket, nonce, balance) ==
    ReadyWalk(bucket, nonce, balance)

-----------------------------------------------------------------------------
(* DeferredPool: sender -> NoncePool. *)

contain_address(dp, addr) == addr \in DOMAIN dp

check_sender_and_nonce_exists(dp, sender, nonce) ==
    IF sender \in DOMAIN dp THEN nonce \in DOMAIN dp[sender] ELSE FALSE

\* Faulty variants of DeferredPool::insert: force is always, or never, passed on.
DeferredPool_insert_always_forced(dp, entry, force) ==
    LET sender == entry.transaction.sender
        bucket == IF sender \in DOMAIN dp THEN dp[sender] ELSE EmptyMap
        r == NoncePool_insert(bucket, entry, TRUE)
    IN  [dp |-> MapPut(dp, sender, r.bucket), result |-> r.result]

DeferredPool_insert_never_forced(dp, entry, force) ==
    LET sender == entry.transaction.sender
        bucket == IF sender \in DOMAIN dp THEN dp[sender] ELSE EmptyMap
        r == NoncePool_insert(bucket, entry, FALSE)
    IN  [dp |-> MapPut(dp, sender, r.bucket), result |-> r.result]

DeferredPool_insert(dp, entry, force) ==
    LET sender == entry.transaction.sender
        bucket == IF sender \in DOMAIN dp THEN dp[sender] ELSE EmptyMap
        r == NoncePool_insert(bucket, entry, force)
    IN  [dp |-> MapPut(dp, sender, r.bucket), result |-> r.result]

count_less(dp, sender, nonce) ==
    IF sender \in DOMAIN dp THEN NoncePool_count_less(dp[sender], nonce) ELSE 0

\* A faulty variant of remove_lowest_nonce: an emptied bucket is kept.
remove_lowest_nonce_keeps_bucket(dp, addr) ==
    IF addr \notin DOMAIN dp THEN [dp |-> dp, ret |-> None]
    ELSE LET bucket == dp[addr]
             n == LowestNonce(bucket)
         IN  IF DOMAIN bucket = {} THEN [dp |-> dp, ret |-> None]
             ELSE [dp |-> MapPut(dp, addr, MapDel(bucket, n)), ret |-> Some(bucket[n])]

\* [dp, ret]: ret is the entry removed, or None.
remove_lowest_nonce(dp, addr) ==
    IF addr \notin DOMAIN dp THEN [dp |-> dp, ret |-> None]
    ELSE LET bucket == dp[addr]
             n == LowestNonce(bucket)
             rest == MapDel(bucket, n)
         IN  IF DOMAIN bucket = {} THEN [dp |-> MapDel(dp, addr), ret |-> None]
             ELSE [dp |-> IF DOMAIN rest = {} THEN MapDel(dp, addr)
                          ELSE MapPut(dp, addr, rest),
                   ret |-> Some(bucket[n])]

get_lowest_nonce_tx(dp, addr) ==
    IF addr \in DOMAIN dp /\ DOMAIN dp[addr] # {}
    THEN Some(dp[addr][LowestNonce(dp[addr])].transaction)
    ELSE None

\* A faulty variant: nonce and balance are passed on in the wrong order.
DeferredPool_recalculate_readiness_swapped(dp, addr, nonce, balance) ==
    IF addr \in DOMAIN dp
    THEN NoncePool_recalculate_readiness_with_local_info(dp[addr], balance, nonce)
    ELSE None

DeferredPool_recalculate_readiness_with_local_info(dp, addr, nonce, balance) ==
    IF addr \in DOMAIN dp
    THEN NoncePool_recalculate_readiness_with_local_info(dp[addr], nonce, balance)
    ELSE None

check_tx_packed(dp, addr, nonce) ==
    IF addr \in DOMAIN dp
    THEN IF nonce \in DOMAIN dp[addr] THEN dp[addr][nonce].packed ELSE FALSE
    ELSE FALSE

\* NoncePool::succ_nonce: the smallest nonce of the bucket that is >= nonce.
succ_nonce(bucket, nonce) ==
    IF \E n \in DOMAIN bucket : n >= nonce
    THEN Some(CHOOSE n \in DOMAIN bucket :
                  n >= nonce /\ \A m \in DOMAIN bucket : m >= nonce => n <= m)
    ELSE None

\* A faulty variant of last_succ_nonce: the bucket is not probed.
last_succ_nonce_without_probe(dp, addr, from_nonce) ==
    IF addr \in DOMAIN dp THEN Some(from_nonce) ELSE None

\* The loop of last_succ_nonce, next_nonce being from_nonce here: each turn
\* that finds the nonce taken goes on with the next one.
RECURSIVE last_succ_nonce(_, _, _)
last_succ_nonce(dp, addr, from_nonce) ==
    IF addr \notin DOMAIN dp THEN None
    ELSE LET nonce == succ_nonce(dp[addr], from_nonce) IN
         IF ~IsSome(nonce) THEN Some(from_nonce)
         ELSE IF Unwrap(nonce) > from_nonce THEN Some(from_nonce)
         ELSE last_succ_nonce(dp, addr, from_nonce + 1)

\* NoncePool::get_pending_transactions: the transactions of the entries with
\* nonce >= start_nonce, in nonce order.
RECURSIVE NoncePool_get_pending_transactions(_, _)
NoncePool_get_pending_transactions(bucket, start_nonce) ==
    LET nonce == succ_nonce(bucket, start_nonce) IN
    IF ~IsSome(nonce) THEN << >>
    ELSE <<bucket[Unwrap(nonce)].transaction>>
         \o NoncePool_get_pending_transactions(bucket, Unwrap(nonce) + 1)

RECURSIVE CostOfEntries(_, _)
CostOfEntries(bucket, nonces) ==
    IF nonces = {} THEN 0
    ELSE LET n == CHOOSE x \in nonces : TRUE IN
         get_tx_cost(bucket[n]) + CostOfEntries(bucket, nonces \ {n})

\* NoncePool::check_pending_reason_with_local_info: FutureNonce when a nonce
\* from the local nonce to the one of pending_tx holds no entry, NotEnoughCash
\* when the entries from the local nonce to pending_tx cost more than the
\* local balance.
check_pending_reason_with_local_info(bucket, nonce, balance, pending_tx) ==
    LET held == {n \in DOMAIN bucket : nonce <= n /\ n <= pending_tx.nonce} IN
    IF Cardinality(held) # pending_tx.nonce - nonce + 1 THEN Some("FutureNonce")
    ELSE IF CostOfEntries(bucket, held) > balance THEN Some("NotEnoughCash")
    ELSE None

\* [pending_txs, pending_reason]
get_pending_transactions(dp, addr, start_nonce, local_nonce, local_balance) ==
    IF addr \in DOMAIN dp
    THEN LET pending_txs == NoncePool_get_pending_transactions(dp[addr], start_nonce) IN
         [pending_txs |-> pending_txs,
          pending_reason |->
              IF pending_txs = << >> THEN None
              ELSE check_pending_reason_with_local_info(
                       dp[addr], local_nonce, local_balance, Head(pending_txs))]
    ELSE [pending_txs |-> << >>, pending_reason |-> None]

-----------------------------------------------------------------------------
(* ReadyAccountPool: a treap sender -> transaction, weighted by gas price. *)

RECURSIVE Pow(_, _)
Pow(base, exp) == IF exp = 0 THEN 1 ELSE base * Pow(base, exp - 1)

\* The weight ReadyAccountPool::insert gives a transaction.  The clamp at
\* u128::max_value() is beyond every gas price of the model.
tx_weight(tx) ==
    LET scaled_weight == tx.gas_price \div tx_weight_scaling
        base_weight == IF scaled_weight = 0 THEN 0 ELSE scaled_weight
    IN  Pow(base_weight, tx_weight_exp)

ReadyAccountPool_insert(rap, tx) ==
    MapPut(rap, tx.sender, [tx |-> tx, weight |-> tx_weight(tx)])

ReadyAccountPool_remove(rap, addr) == MapDel(rap, addr)

ReadyAccountPool_get(rap, addr) ==
    IF addr \in DOMAIN rap THEN Some(rap[addr].tx) ELSE None

\* A faulty variant of update: a None leaves the node in the treap.
ReadyAccountPool_update_never_removes(rap, addr, tx) ==
    IF IsSome(tx) THEN ReadyAccountPool_insert(rap, Unwrap(tx)) ELSE rap

ReadyAccountPool_update(rap, addr, tx) ==
    IF IsSome(tx) THEN ReadyAccountPool_insert(rap, Unwrap(tx))
    ELSE ReadyAccountPool_remove(rap, addr)

RECURSIVE SumWeight(_, _)
SumWeight(rap, S) ==
    IF S = {} THEN 0
    ELSE LET s == CHOOSE x \in S : TRUE IN rap[s].weight + SumWeight(rap, S \ {s})

sum_weight(rap) == SumWeight(rap, DOMAIN rap)

\* The senders get_by_weight(rand % sum_weight) can return: a node of weight 0
\* covers no value of the random number.
Drawable(rap) == {s \in DOMAIN rap : rap[s].weight > 0}

-----------------------------------------------------------------------------
(* GarbageCollector: sender -> [count, timestamp], popped by count          *)
(* descending, then timestamp ascending.                                    *)

GarbageCollector_insert(gc, sender, count, timestamp) ==
    MapPut(gc, sender, [count |-> count, timestamp |-> timestamp])

GarbageCollector_get_timestamp(gc, sender) ==
    IF sender \in DOMAIN gc THEN Some(gc[sender].timestamp) ELSE None

GarbageCollector_is_empty(gc) == DOMAIN gc = {}

\* A faulty variant of gc_size: the number of nodes.
gc_size_counts_nodes(gc) == Cardinality(DOMAIN gc)

\* GarbageCollector::gc_size: the number of transactions the collector may
\* take without loss, the sum of the counts of its nodes.
RECURSIVE gc_size(_)
gc_size(gc) ==
    IF DOMAIN gc = {} THEN 0
    ELSE LET s == CHOOSE x \in DOMAIN gc : TRUE IN
         gc[s].count + gc_size(MapDel(gc, s))

\* Position of s in the sequence tie: the order among equal nodes.
Rank(tie, s) == CHOOSE i \in 1..Len(tie) : tie[i] = s

Before(gc, tie, a, b) ==
    \/ gc[a].count > gc[b].count
    \/ gc[a].count = gc[b].count /\ gc[a].timestamp < gc[b].timestamp
    \/ gc[a].count = gc[b].count /\ gc[a].timestamp = gc[b].timestamp
       /\ Rank(tie, a) <= Rank(tie, b)

\* The sender of the node pop() returns.
GarbageCollector_top(gc, tie) ==
    CHOOSE a \in DOMAIN gc : \A b \in DOMAIN gc : Before(gc, tie, a, b)

Ties == {t \in [1..Cardinality(Senders) -> Senders] : \A s \in Senders : \E i \in DOMAIN t : t[i] = s}

-----------------------------------------------------------------------------
(* TransactionPoolInner.  The operations below work on p, a record of the   *)
(* fields of the pool.                                                      *)

Pool ==
    [capacity |-> capacity,
     unpacked_transaction_count |-> unpacked_transaction_count,
     deferred_pool |-> deferred_pool,
     ready_account_pool |-> ready_account_pool,
     ready_nonces_and_balances |-> ready_nonces_and_balances,
     garbage_collector |-> garbage_collector,
     txs |-> txs,
     tx_sponsored_gas_map |-> tx_sponsored_gas_map,
     underflow |-> underflow,
     panic |-> panic]

total_deferred(p) == Cardinality(DOMAIN p.txs)

\* A faulty variant of is_full: full only once the capacity is exceeded.
is_full_when_exceeded(p) == total_deferred(p) > p.capacity

is_full(p) == total_deferred(p) >= p.capacity

\* usize arithmetic: capacity - len is computed first.
remaining_quota(p) ==
    LET len == total_deferred(p) IN
    p.capacity - len + gc_size(p.garbage_collector)

get_local_nonce_and_balance(p, addr) ==
    IF addr \in DOMAIN p.ready_nonces_and_balances
    THEN Some(p.ready_nonces_and_balances[addr]) ELSE None

\* [txs, status, count]; maybe_limit = None stands for usize::MAX.  The
\* error! lines of the sanity check write to the log only.
get_account_pending_transactions(p, address, maybe_start_nonce, maybe_limit) ==
    LET local == get_local_nonce_and_balance(p, address)
        local_nonce == IF IsSome(local) THEN Unwrap(local)[1] ELSE 0
        local_balance == IF IsSome(local) THEN Unwrap(local)[2] ELSE 0
        start_nonce == IF IsSome(maybe_start_nonce) THEN Unwrap(maybe_start_nonce)
                       ELSE local_nonce
        r == get_pending_transactions(p.deferred_pool, address, start_nonce,
                                      local_nonce, local_balance)
        pending_count == Len(r.pending_txs)
        taken == IF IsSome(maybe_limit) /\ Unwrap(maybe_limit) < pending_count
                 THEN Unwrap(maybe_limit) ELSE pending_count
    IN
    IF r.pending_txs = << >> THEN [txs |-> << >>, status |-> None, count |-> 0]
    ELSE [txs |-> SubSeq(r.pending_txs, 1, taken),
          status |-> IF IsSome(r.pending_reason)
                     THEN Some(<<"Pending", Unwrap(r.pending_reason)>>)
                     ELSE Some(<<"Ready">>),
          count |-> pending_count]

get_next_nonce(p, address, state_nonce) ==
    LET r == last_succ_nonce(p.deferred_pool, address, state_nonce) IN
    IF IsSome(r) THEN Unwrap(r) ELSE state_nonce

\* A faulty variant of DecUnpacked: the counter is left alone.
DecUnpacked_never(p) == p

\* unpacked_transaction_count.checked_sub(1).unwrap_or_else(|| { error!(..); 0 })
DecUnpacked(p) ==
    IF p.unpacked_transaction_count >= 1
    THEN [p EXCEPT !.unpacked_transaction_count = @ - 1]
    ELSE [p EXCEPT !.unpacked_transaction_count = 0, !.underflow = TRUE]

to_panic(p) == p.panic # ""

(* collect_garbage.  GcScan is the inner loop that pops up to               *)
(* GC_CHECK_COUNT nodes; st = [gc, cnt, poped_nodes, victim, min_gas_price] *)
(* holds the collector and the locals of the loop.                          *)
RECURSIVE GcScan(_, _, _, _)
RECURSIVE GcVisit(_, _, _, _, _)

\* A faulty variant of GcVisit: the count of the node is not looked at.
GcVisit_ignores_count(dp, new_tx, tie, st, s) ==
    LET node == [sender |-> s, count |-> st.gc[s].count, timestamp |-> st.gc[s].timestamp]
        popped == [st EXCEPT !.gc = MapDel(@, s)]
        pushed == [st EXCEPT !.gc = MapDel(@, s), !.poped_nodes = Append(@, node)]
        to_remove_tx == Unwrap(get_lowest_nonce_tx(dp, s))
    IN
    IF ~contain_address(dp, s) THEN GcScan(dp, new_tx, tie, popped)
    ELSE IF s = new_tx.sender THEN GcScan(dp, new_tx, tie, pushed)
    ELSE IF to_remove_tx.gas_price < st.min_gas_price
         THEN GcScan(dp, new_tx, tie,
                     [pushed EXCEPT !.min_gas_price = to_remove_tx.gas_price,
                                    !.victim = Some(node), !.cnt = @ - 1])
         ELSE GcScan(dp, new_tx, tie, [pushed EXCEPT !.cnt = @ - 1])

\* A faulty variant of GcVisit: the sender of new_tx is compared as well.
GcVisit_own_sender(dp, new_tx, tie, st, s) ==
    LET node == [sender |-> s, count |-> st.gc[s].count, timestamp |-> st.gc[s].timestamp]
        popped == [st EXCEPT !.gc = MapDel(@, s)]
        pushed == [st EXCEPT !.gc = MapDel(@, s), !.poped_nodes = Append(@, node)]
        to_remove_tx == Unwrap(get_lowest_nonce_tx(dp, s))
    IN
    IF ~contain_address(dp, s) THEN GcScan(dp, new_tx, tie, popped)
    ELSE IF node.count > 0 THEN [pushed EXCEPT !.victim = Some(node)]
    ELSE IF to_remove_tx.gas_price < st.min_gas_price
         THEN GcScan(dp, new_tx, tie,
                     [pushed EXCEPT !.min_gas_price = to_remove_tx.gas_price,
                                    !.victim = Some(node), !.cnt = @ - 1])
         ELSE GcScan(dp, new_tx, tie, [pushed EXCEPT !.cnt = @ - 1])

\* A faulty variant of GcVisit: a gas price equal to the lowest so far is
\* enough to become the victim.
GcVisit_not_strict(dp, new_tx, tie, st, s) ==
    LET node == [sender |-> s, count |-> st.gc[s].count, timestamp |-> st.gc[s].timestamp]
        popped == [st EXCEPT !.gc = MapDel(@, s)]
        pushed == [st EXCEPT !.gc = MapDel(@, s), !.poped_nodes = Append(@, node)]
        to_remove_tx == Unwrap(get_lowest_nonce_tx(dp, s))
    IN
    IF ~contain_address(dp, s) THEN GcScan(dp, new_tx, tie, popped)
    ELSE IF node.count > 0 THEN [pushed EXCEPT !.victim = Some(node)]
    ELSE IF s = new_tx.sender THEN GcScan(dp, new_tx, tie, pushed)
    ELSE IF to_remove_tx.gas_price <= st.min_gas_price
         THEN GcScan(dp, new_tx, tie,
                     [pushed EXCEPT !.min_gas_price = to_remove_tx.gas_price,
                                    !.victim = Some(node), !.cnt = @ - 1])
         ELSE GcScan(dp, new_tx, tie, [pushed EXCEPT !.cnt = @ - 1])

\* One pass of the inner loop, s being the sender of the node pop() returned.
GcVisit(dp, new_tx, tie, st, s) ==
    LET node == [sender |-> s, count |-> st.gc[s].count, timestamp |-> st.gc[s].timestamp]
        popped == [st EXCEPT !.gc = MapDel(@, s)]
        pushed == [st EXCEPT !.gc = MapDel(@, s), !.poped_nodes = Append(@, node)]
        to_remove_tx == Unwrap(get_lowest_nonce_tx(dp, s))
    IN
    IF ~contain_address(dp, s) THEN GcScan(dp, new_tx, tie, popped)
    ELSE IF node.count > 0 THEN [pushed EXCEPT !.victim = Some(node)]
    ELSE IF s = new_tx.sender THEN GcScan(dp, new_tx, tie, pushed)
    ELSE IF to_remove_tx.gas_price < st.min_gas_price
         THEN GcScan(dp, new_tx, tie,
                     [pushed EXCEPT !.min_gas_price = to_remove_tx.gas_price,
                                    !.victim = Some(node), !.cnt = @ - 1])
         ELSE GcScan(dp, new_tx, tie, [pushed EXCEPT !.cnt = @ - 1])

GcScan(dp, new_tx, tie, st) ==
    IF GarbageCollector_is_empty(st.gc) \/ st.cnt = 0 THEN st
    ELSE GcVisit(dp, new_tx, tie, st, GarbageCollector_top(st.gc, tie))

\* A faulty variant of InsertBack: the nodes popped are not inserted back.
InsertBack_never(gc, poped_nodes, victim) == gc

\* "Insert back other nodes to keep garbage_collector unchanged."
RECURSIVE InsertBack(_, _, _)
InsertBack(gc, poped_nodes, victim) ==
    IF poped_nodes = << >> THEN gc
    ELSE LET node == Head(poped_nodes) IN
         IF IsSome(victim) /\ node.sender = Unwrap(victim).sender
         THEN InsertBack(gc, Tail(poped_nodes), victim)
         ELSE InsertBack(GarbageCollector_insert(gc, node.sender, node.count, node.timestamp),
                         Tail(poped_nodes), victim)

\* "maintain ready account pool"
EvictReady(p, addr, to_remove_tx) ==
    LET ready_tx == ReadyAccountPool_get(p.ready_account_pool, addr) IN
    IF IsSome(ready_tx) /\ Unwrap(ready_tx).hash = to_remove_tx.hash
    THEN [p EXCEPT !.ready_account_pool = ReadyAccountPool_remove(@, addr)]
    ELSE p

\* A faulty variant of EvictCount: the counter is left alone.
EvictCount_never(p, addr, to_remove_tx) == p

EvictCount(p, addr, to_remove_tx) ==
    IF ~check_tx_packed(p.deferred_pool, addr, to_remove_tx.nonce)
    THEN DecUnpacked(p) ELSE p

\* A faulty variant of EvictRemove: the cache entry of a sender left without
\* transactions stays.
EvictRemove_keeps_ready_info(p, victim, current_timestamp, removed) ==
    LET addr == victim.sender
        removed_tx == Unwrap(removed.ret).transaction
    IN  [p EXCEPT
           !.deferred_pool = removed.dp,
           !.garbage_collector =
               IF ~contain_address(removed.dp, addr) THEN @
               ELSE GarbageCollector_insert(@, addr,
                        IF victim.count > 0 THEN victim.count - 1 ELSE 0,
                        current_timestamp),
           !.txs = MapDel(@, removed_tx.hash),
           !.tx_sponsored_gas_map = MapDel(@, removed_tx.hash)]

\* A faulty variant of EvictRemove: the node goes back with the count it had.
EvictRemove_keeps_count(p, victim, current_timestamp, removed) ==
    LET addr == victim.sender
        removed_tx == Unwrap(removed.ret).transaction
    IN  [p EXCEPT
           !.deferred_pool = removed.dp,
           !.ready_nonces_and_balances =
               IF ~contain_address(removed.dp, addr) THEN MapDel(@, addr) ELSE @,
           !.garbage_collector =
               IF ~contain_address(removed.dp, addr) THEN @
               ELSE GarbageCollector_insert(@, addr, victim.count, current_timestamp),
           !.txs = MapDel(@, removed_tx.hash),
           !.tx_sponsored_gas_map = MapDel(@, removed_tx.hash)]

\* remove_lowest_nonce, "maintain ready info" and "maintain txs"; removed is
\* what remove_lowest_nonce returned.
EvictRemove(p, victim, current_timestamp, removed) ==
    LET addr == victim.sender
        removed_tx == Unwrap(removed.ret).transaction
    IN  [p EXCEPT
           !.deferred_pool = removed.dp,
           !.ready_nonces_and_balances =
               IF ~contain_address(removed.dp, addr) THEN MapDel(@, addr) ELSE @,
           !.garbage_collector =
               IF ~contain_address(removed.dp, addr) THEN @
               ELSE GarbageCollector_insert(@, addr,
                        IF victim.count > 0 THEN victim.count - 1 ELSE 0,
                        current_timestamp),
           !.txs = MapDel(@, removed_tx.hash),
           !.tx_sponsored_gas_map = MapDel(@, removed_tx.hash)]

\* The body of the outer loop once a victim is chosen.
Evict(p, victim, current_timestamp) ==
    LET addr == victim.sender
        local == get_local_nonce_and_balance(p, addr)
        ready_nonce == IF IsSome(local) THEN Unwrap(local)[1] ELSE 0
        to_remove_tx == Unwrap(get_lowest_nonce_tx(p.deferred_pool, addr))
    IN
    IF to_remove_tx.nonce >= ready_nonce /\ victim.count # 0
    THEN [p EXCEPT !.panic = "assert_eq"]
    ELSE EvictRemove(EvictCount(EvictReady(p, addr, to_remove_tx), addr, to_remove_tx),
                     victim, current_timestamp,
                     remove_lowest_nonce(p.deferred_pool, addr))

RECURSIVE collect_garbage(_, _, _, _)
RECURSIVE GcOuter(_, _, _, _, _)
RECURSIVE GcAgain(_, _, _, _)

\* The while test again, p being the pool after an eviction.
GcAgain(p, new_tx, current_timestamp, tie) ==
    IF to_panic(p) THEN p ELSE collect_garbage(p, new_tx, current_timestamp, tie)

\* The outer loop after the inner one ended in st.
GcOuter(p, st, new_tx, current_timestamp, tie) ==
    LET back == [p EXCEPT !.garbage_collector = InsertBack(st.gc, st.poped_nodes, st.victim)]
    IN
    IF ~IsSome(st.victim) THEN back
    ELSE GcAgain(Evict(back, Unwrap(st.victim), current_timestamp),
                 new_tx, current_timestamp, tie)

collect_garbage(p, new_tx, current_timestamp, tie) ==
    IF ~(is_full(p) /\ ~GarbageCollector_is_empty(p.garbage_collector)) THEN p
    ELSE GcOuter(p,
                 GcScan(p.deferred_pool, new_tx, tie,
                        [gc |-> p.garbage_collector, cnt |-> GC_CHECK_COUNT,
                         poped_nodes |-> << >>, victim |-> None,
                         min_gas_price |-> new_tx.gas_price]),
                 new_tx, current_timestamp, tie)

\* A faulty variant of update_nonce_and_balance: a nonce below the cached one
\* is not taken.
update_nonce_and_balance_never_lowering(p, address, nonce, balance, current_timestamp) ==
    IF ~contain_address(p.deferred_pool, address) THEN p
    ELSE
      LET local == get_local_nonce_and_balance(p, address)
          kept == IF IsSome(local) /\ Unwrap(local)[1] > nonce
                  THEN Unwrap(local)[1] ELSE nonce
          count == count_less(p.deferred_pool, address, kept)
          ts == GarbageCollector_get_timestamp(p.garbage_collector, address)
          timestamp == IF IsSome(ts) THEN Unwrap(ts) ELSE current_timestamp
      IN  [p EXCEPT !.garbage_collector = GarbageCollector_insert(@, address, count, timestamp),
                    !.ready_nonces_and_balances = MapPut(@, address, <<kept, balance>>)]

\* A faulty variant of update_nonce_and_balance: the count of the node is kept.
update_nonce_and_balance_keeps_count(p, address, nonce, balance, current_timestamp) ==
    IF ~contain_address(p.deferred_pool, address) THEN p
    ELSE [p EXCEPT !.ready_nonces_and_balances = MapPut(@, address, <<nonce, balance>>)]

update_nonce_and_balance(p, address, nonce, balance, current_timestamp) ==
    IF ~contain_address(p.deferred_pool, address) THEN p
    ELSE
      LET count == count_less(p.deferred_pool, address, nonce)
          ts == GarbageCollector_get_timestamp(p.garbage_collector, address)
          timestamp == IF IsSome(ts) THEN Unwrap(ts) ELSE current_timestamp
      IN  [p EXCEPT !.garbage_collector = GarbageCollector_insert(@, address, count, timestamp),
                    !.ready_nonces_and_balances = MapPut(@, address, <<nonce, balance>>)]

\* The arm InsertResult::NewAdded, p being the pool after update_nonce_and_balance.
InsertNewAdded(p, transaction, packed, state_nonce, sponsored, current_timestamp) ==
    LET sender == transaction.sender
        count == count_less(p.deferred_pool, sender, state_nonce)
        ts == GarbageCollector_get_timestamp(p.garbage_collector, sender)
        timestamp == IF IsSome(ts) THEN Unwrap(ts) ELSE current_timestamp
    IN  [p EXCEPT
           !.garbage_collector = GarbageCollector_insert(@, sender, count, timestamp),
           !.txs = MapPut(@, transaction.hash, transaction),
           !.tx_sponsored_gas_map = MapPut(@, transaction.hash, sponsored),
           !.unpacked_transaction_count = IF ~packed THEN @ + 1 ELSE @]

\* A faulty variant of InsertUpdated: the replaced hash stays in the maps.
InsertUpdated_keeps_replaced(p, transaction, packed, replaced_tx, sponsored) ==
    [p EXCEPT
       !.txs = MapPut(@, transaction.hash, transaction),
       !.tx_sponsored_gas_map = MapPut(@, transaction.hash, sponsored),
       !.unpacked_transaction_count = IF ~packed THEN @ + 1 ELSE @]

\* The arm InsertResult::Updated(replaced_tx), p being the pool after the
\* counter was lowered for an unpacked replaced_tx.
InsertUpdated(p, transaction, packed, replaced_tx, sponsored) ==
    [p EXCEPT
       !.txs = MapPut(MapDel(@, replaced_tx.transaction.hash),
                      transaction.hash, transaction),
       !.tx_sponsored_gas_map = MapPut(MapDel(@, replaced_tx.transaction.hash),
                                       transaction.hash, sponsored),
       !.unpacked_transaction_count = IF ~packed THEN @ + 1 ELSE @]

\* The match on the result ins of deferred_pool.insert; p is the pool before it.
InsertMatch(p, ins, transaction, packed, state_nonce_and_balance, sponsored, current_timestamp) ==
    LET p1 == [p EXCEPT !.deferred_pool = ins.dp]
        snb == Unwrap(state_nonce_and_balance)
    IN
    IF ins.result.kind = "NewAdded"
    THEN IF ~IsSome(state_nonce_and_balance)
         THEN [pool |-> [p1 EXCEPT !.panic = "unwrap"], result |-> ins.result]
         ELSE [pool |-> InsertNewAdded(
                            update_nonce_and_balance(p1, transaction.sender, snb[1], snb[2],
                                                     current_timestamp),
                            transaction, packed, snb[1], sponsored, current_timestamp),
               result |-> ins.result]
    ELSE IF ins.result.kind = "Updated"
    THEN [pool |-> InsertUpdated(
                       IF ~Unwrap(ins.result.replaced).packed THEN DecUnpacked(p1) ELSE p1,
                       transaction, packed, Unwrap(ins.result.replaced), sponsored),
          result |-> ins.result]
    ELSE [pool |-> p1, result |-> ins.result]

\* insert_transaction_without_readiness_check from the is_full test on; p0 is
\* the pool after collect_garbage, if it was called.
InsertAfterGc(p0, exists, transaction, packed, force, state_nonce_and_balance, sponsored, current_timestamp) ==
    IF to_panic(p0) THEN [pool |-> p0, result |-> PoolFull]
    ELSE IF ~exists /\ is_full(p0) THEN [pool |-> p0, result |-> PoolFull]
    ELSE InsertMatch(p0,
                     DeferredPool_insert(p0.deferred_pool,
                         TxWithReadyInfo(transaction, packed, sponsored[1], sponsored[2]),
                         force),
                     transaction, packed, state_nonce_and_balance, sponsored,
                     current_timestamp)

\* A faulty variant of insert_transaction_without_readiness_check: garbage is
\* collected and the pool must have room even when the nonce is present.
insert_transaction_always_collecting(p, transaction, packed, force, state_nonce_and_balance, sponsored, current_timestamp, tie) ==
    InsertAfterGc(collect_garbage(p, transaction, current_timestamp, tie),
                  FALSE, transaction, packed, force, state_nonce_and_balance,
                  sponsored, current_timestamp)

\* [pool, result].  state_nonce_and_balance is an Option; sponsored is
\* <<sponsored_gas, sponsored_storage>>.
insert_transaction_without_readiness_check(p, transaction, packed, force, state_nonce_and_balance, sponsored, current_timestamp, tie) ==
    LET exists == check_sender_and_nonce_exists(
                      p.deferred_pool, transaction.sender, transaction.nonce)
    IN  InsertAfterGc(IF exists THEN p
                      ELSE collect_garbage(p, transaction, current_timestamp, tie),
                      exists, transaction, packed, force, state_nonce_and_balance,
                      sponsored, current_timestamp)

recalculate_readiness_with_local_info(p, addr) ==
    LET local == get_local_nonce_and_balance(p, addr)
        nb == IF IsSome(local) THEN Unwrap(local) ELSE <<0, 0>>
        ret == DeferredPool_recalculate_readiness_with_local_info(
                   p.deferred_pool, addr, nb[1], nb[2])
    IN  [p EXCEPT !.ready_account_pool = ReadyAccountPool_update(@, addr, ret)]

\* A faulty variant of recalculate_readiness_with_fixed_info: the cache of
\* nonce and balance is not updated.
recalculate_readiness_without_update(p, addr, nonce, balance, current_timestamp) ==
    [p EXCEPT !.ready_account_pool =
         ReadyAccountPool_update(@, addr,
             DeferredPool_recalculate_readiness_with_local_info(
                 p.deferred_pool, addr, nonce, balance))]

recalculate_readiness_with_fixed_info(p, addr, nonce, balance, current_timestamp) ==
    LET p1 == update_nonce_and_balance(p, addr, nonce, balance, current_timestamp)
        ret == DeferredPool_recalculate_readiness_with_local_info(
                   p1.deferred_pool, addr, nonce, balance)
    IN  [p1 EXCEPT !.ready_account_pool = ReadyAccountPool_update(@, addr, ret)]

\* get_and_update_nonce_and_balance_from_storage, after a successful read of
\* nonce_and_balance from the account cache.
get_and_update_nonce_and_balance_from_storage(p, address, nonce_and_balance, current_timestamp) ==
    IF ~contain_address(p.deferred_pool, address) THEN p
    ELSE
      LET count == count_less(p.deferred_pool, address, nonce_and_balance[1])
          ts == GarbageCollector_get_timestamp(p.garbage_collector, address)
          timestamp == IF IsSome(ts) THEN Unwrap(ts) ELSE current_timestamp
      IN  [p EXCEPT !.garbage_collector = GarbageCollector_insert(@, address, count, timestamp),
                    !.ready_nonces_and_balances = MapPut(@, address, nonce_and_balance)]

\* recalculate_readiness_with_state, after a successful read.
recalculate_readiness_with_state(p, addr, nonce_and_balance, current_timestamp) ==
    LET p1 == get_and_update_nonce_and_balance_from_storage(
                  p, addr, nonce_and_balance, current_timestamp)
        ret == DeferredPool_recalculate_readiness_with_local_info(
                   p1.deferred_pool, addr, nonce_and_balance[1], nonce_and_balance[2])
    IN  [p1 EXCEPT !.ready_account_pool = ReadyAccountPool_update(@, addr, ret)]

-----------------------------------------------------------------------------
(* The account-state oracle (AccountCache).  One answer o covers the reads  *)
(* of one insert: get_sponsor_info, check_commission_privilege, and the two *)
(* reads of get_nonce_and_balance, each of which may fail.                  *)

SponsorInfo == [sponsor_gas_bound |-> 1, sponsor_balance_for_gas |-> 2,
                sponsor_balance_for_collateral |-> 0]

SponsorAnswers(tx) ==
    IF tx.contract_call
    THEN {[sponsor |-> "fail", privilege |-> "no"],
          [sponsor |-> "none", privilege |-> "no"],
          [sponsor |-> "some", privilege |-> "fail"],
          [sponsor |-> "some", privilege |-> "no"],
          [sponsor |-> "some", privilege |-> "yes"]}
    ELSE {[sponsor |-> "none", privilege |-> "no"]}

StateAnswers ==
    {[first |-> "fail", nonce |-> 0, balance |-> 0, second |-> "ok"]}
    \cup {[first |-> "ok", nonce |-> n, balance |-> b, second |-> f] :
             n \in StateNonces, b \in Balances, f \in {"ok", "fail"}}

Answer(sa, st) ==
    [sponsor |-> sa.sponsor, privilege |-> sa.privilege, first |-> st.first,
     nonce |-> st.nonce, balance |-> st.balance, second |-> st.second]

\* A failed sponsor read ends the call: the later reads are not made.
OracleAnswers(tx) ==
    {Answer(sa, st) : sa \in {a \in SponsorAnswers(tx) : a.sponsor # "fail" /\ a.privilege # "fail"},
                      st \in StateAnswers}
    \cup {Answer(sa, [first |-> "fail", nonce |-> 0, balance |-> 0, second |-> "ok"]) :
             sa \in {a \in SponsorAnswers(tx) : a.sponsor = "fail" \/ a.privilege = "fail"}}

\* The order among equal nodes matters only when collect_garbage pops.
TiesFor(p, tx) ==
    IF is_full(p) /\ ~check_sender_and_nonce_exists(p.deferred_pool, tx.sender, tx.nonce)
    THEN Ties ELSE {CHOOSE t \in Ties : TRUE}

\* <<sponsored_gas, sponsored_storage>> as lines 975-1025 compute them, when
\* no read fails.  full_mul cannot exceed U128::max_value() in the model.
Sponsored(transaction, o) ==
    IF transaction.contract_call /\ o.sponsor = "some" /\ o.privilege = "yes"
    THEN LET estimated_gas == transaction.gas * transaction.gas_price
             estimated_collateral ==
                 transaction.storage_limit * DRIPS_PER_STORAGE_COLLATERAL_UNIT
         IN  <<IF estimated_gas <= SponsorInfo.sponsor_gas_bound
                  /\ estimated_gas <= SponsorInfo.sponsor_balance_for_gas
               THEN transaction.gas ELSE 0,
               IF estimated_collateral <= SponsorInfo.sponsor_balance_for_collateral
               THEN transaction.storage_limit ELSE 0>>
    ELSE <<0, 0>>

SponsorReadFails(transaction, o) ==
    transaction.contract_call
    /\ (o.sponsor = "fail" \/ (o.sponsor = "some" /\ o.privilege = "fail"))

Outcome(p, kind, min_gas_price) == [pool |-> p, kind |-> kind, min_gas_price |-> min_gas_price]

\* insert_transaction_with_readiness_check after the call r of
\* insert_transaction_without_readiness_check.
InsertResultMatch(r, transaction, o, current_timestamp) ==
    IF to_panic(r.pool) THEN Outcome(r.pool, "Panic", 0)
    ELSE IF r.result.kind = "PoolFull" THEN Outcome(r.pool, "PoolFull", 0)
    ELSE IF r.result.kind = "Failed"
         THEN Outcome(r.pool, "ReplaceUnderpriced", r.result.min_gas_price)
    ELSE IF o.second = "fail" THEN Outcome(r.pool, "OracleFailureAfterInsert", 0)
    ELSE Outcome(recalculate_readiness_with_state(
                     r.pool, transaction.sender, <<o.nonce, o.balance>>,
                     current_timestamp),
                 r.result.kind, 0)

\* Faulty variants of insert_transaction_with_readiness_check: the furthest
\* nonce accepted is one too far, and a packed transaction below the state
\* nonce is refused as stale too.
insert_transaction_one_nonce_further(p, transaction, packed, force, o, current_timestamp, tie) ==
    LET state_nonce == o.nonce
        state_balance == o.balance
    IN
    IF SponsorReadFails(transaction, o) THEN Outcome(p, "OracleFailure", 0)
    ELSE IF o.first = "fail" THEN Outcome(p, "OracleFailure", 0)
    ELSE IF transaction.nonce > state_nonce + FURTHEST_FUTURE_TRANSACTION_NONCE_OFFSET
         THEN Outcome(p, "TooFarFuture", 0)
    ELSE IF ~packed /\ transaction.nonce < state_nonce
         THEN Outcome(p, "StaleNonce", 0)
    ELSE InsertResultMatch(
             insert_transaction_without_readiness_check(
                 p, transaction, packed, force, Some(<<state_nonce, state_balance>>),
                 Sponsored(transaction, o), current_timestamp, tie),
             transaction, o, current_timestamp)

insert_transaction_stale_when_packed(p, transaction, packed, force, o, current_timestamp, tie) ==
    LET state_nonce == o.nonce
        state_balance == o.balance
    IN
    IF SponsorReadFails(transaction, o) THEN Outcome(p, "OracleFailure", 0)
    ELSE IF o.first = "fail" THEN Outcome(p, "OracleFailure", 0)
    ELSE IF transaction.nonce >= state_nonce + FURTHEST_FUTURE_TRANSACTION_NONCE_OFFSET
         THEN Outcome(p, "TooFarFuture", 0)
    ELSE IF transaction.nonce < state_nonce
         THEN Outcome(p, "StaleNonce", 0)
    ELSE InsertResultMatch(
             insert_transaction_without_readiness_check(
                 p, transaction, packed, force, Some(<<state_nonce, state_balance>>),
                 Sponsored(transaction, o), current_timestamp, tie),
             transaction, o, current_timestamp)

\* [pool, kind, min_gas_price]: kind is "NewAdded", "Updated" or the error.
insert_transaction_with_readiness_check(p, transaction, packed, force, o, current_timestamp, tie) ==
    LET state_nonce == o.nonce
        state_balance == o.balance
    IN
    IF SponsorReadFails(transaction, o) THEN Outcome(p, "OracleFailure", 0)
    ELSE IF o.first = "fail" THEN Outcome(p, "OracleFailure", 0)
    ELSE IF transaction.nonce >= state_nonce + FURTHEST_FUTURE_TRANSACTION_NONCE_OFFSET
         THEN Outcome(p, "TooFarFuture", 0)
    ELSE IF ~packed /\ transaction.nonce < state_nonce
         THEN Outcome(p, "StaleNonce", 0)
    ELSE InsertResultMatch(
             insert_transaction_without_readiness_check(
                 p, transaction, packed, force, Some(<<state_nonce, state_balance>>),
                 Sponsored(transaction, o), current_timestamp, tie),
             transaction, o, current_timestamp)

\* A faulty variant of notify_modified_accounts: the report is ignored.
notify_modified_accounts_ignored(p, accounts_from_execution, current_timestamp) == p

RECURSIVE notify_modified_accounts(_, _, _)
notify_modified_accounts(p, accounts_from_execution, current_timestamp) ==
    IF accounts_from_execution = << >> THEN p
    ELSE LET account == Head(accounts_from_execution) IN
         notify_modified_accounts(
             recalculate_readiness_with_fixed_info(
                 p, account.address, account.nonce, account.balance, current_timestamp),
             Tail(accounts_from_execution), current_timestamp)

Accounts == [address : Senders, nonce : StateNonces, balance : Balances]
AccountVecs == {<<a>> : a \in Accounts}

-----------------------------------------------------------------------------
(* pack_transactions.  l is the record of its locals; one PackIteration is  *)
(* one pass of the loop 'out, PackEpilogue the code after the loop.         *)

\* A faulty variant of PackLocals: no early return when num_txs is 0.
PackLocals_without_early_return(num_txs, block_gas_limit, block_size_limit) ==
    [num_txs |-> num_txs, block_gas_limit |-> block_gas_limit,
     block_size_limit |-> block_size_limit,
     total_tx_gas_limit |-> 0, total_tx_size |-> 0,
     big_tx_resample_times_limit |-> BIG_TX_RESAMPLE_TIMES_LIMIT,
     recycle_txs |-> << >>, packed_transactions |-> << >>,
     done |-> FALSE]

PackLocals(num_txs, block_gas_limit, block_size_limit) ==
    [num_txs |-> num_txs, block_gas_limit |-> block_gas_limit,
     block_size_limit |-> block_size_limit,
     total_tx_gas_limit |-> 0, total_tx_size |-> 0,
     big_tx_resample_times_limit |-> BIG_TX_RESAMPLE_TIMES_LIMIT,
     recycle_txs |-> << >>, packed_transactions |-> << >>,
     done |-> (num_txs = 0)]

PackingCheckResults == {"Pack", "Pending", "Drop"}

\* What ReadyAccountPool::pop can do: return None on an empty treap, divide by
\* a zero sum of weights, or remove the node the random number falls on.
PopChoices(rap) ==
    IF DOMAIN rap = {} THEN {None}
    ELSE IF sum_weight(rap) = 0 THEN {Some("rem_by_zero")}
    ELSE {Some(s) : s \in Drawable(rap)}

\* ReadyAccountPool::clear: pop until the treap is empty.  Each result is the
\* treap left and the panic, if any, that stopped the loop.
RECURSIVE ReadyAccountPool_clear(_)
ReadyAccountPool_clear(rap) ==
    LET pops == PopChoices(rap) IN
    IF pops = {None} THEN {[treap |-> rap, panic |-> ""]}
    ELSE IF pops = {Some("rem_by_zero")} THEN {[treap |-> rap, panic |-> "rem_by_zero"]}
    ELSE UNION {ReadyAccountPool_clear(ReadyAccountPool_remove(rap, Unwrap(pop))) : pop \in pops}

\* TransactionPoolInner::clear.  A panic in the ready_account_pool leaves the
\* fields after it as they were.
clear(p) ==
    {IF r.panic # ""
     THEN [p EXCEPT !.deferred_pool = EmptyMap,
                    !.ready_account_pool = r.treap,
                    !.panic = r.panic]
     ELSE [p EXCEPT !.deferred_pool = EmptyMap,
                    !.ready_account_pool = r.treap,
                    !.ready_nonces_and_balances = EmptyMap,
                    !.garbage_collector = EmptyMap,
                    !.txs = EmptyMap,
                    !.tx_sponsored_gas_map = EmptyMap,
                    !.unpacked_transaction_count = 0] :
        r \in ReadyAccountPool_clear(p.ready_account_pool)}

\* The orders among equal nodes that matter to the pass that pops `pop`.
PackTies(p, pop) ==
    IF IsSome(pop) /\ Unwrap(pop) \in DOMAIN p.ready_account_pool
    THEN TiesFor(p, p.ready_account_pool[Unwrap(pop)].tx)
    ELSE {CHOOSE t \in Ties : TRUE}

sponsored_of(p, hash) ==
    IF hash \in DOMAIN p.tx_sponsored_gas_map THEN p.tx_sponsored_gas_map[hash] ELSE <<0, 0>>

\* recalculate_readiness_with_local_info after an insert that did not panic.
AfterRepack(p, sender) ==
    IF to_panic(p) THEN p ELSE recalculate_readiness_with_local_info(p, sender)

\* A faulty variant of PackIteration: the resample budget is decremented
\* before it is tested.
PackIteration_decrement_first(p, l, pop, check, current_timestamp, tie) ==
    LET s == Unwrap(pop)
        tx == p.ready_account_pool[s].tx
        p1 == [p EXCEPT !.ready_account_pool = ReadyAccountPool_remove(@, s)]
        recycled == [l EXCEPT !.recycle_txs = Append(@, tx),
                              !.big_tx_resample_times_limit = @ - 1]
    IN
    IF ~IsSome(pop) THEN [pool |-> p, l |-> [l EXCEPT !.done = TRUE]]
    ELSE IF l.block_gas_limit - l.total_tx_gas_limit < tx.gas
            \/ l.block_size_limit - l.total_tx_size < tx.rlp_size
         THEN [pool |-> p1,
               l |-> [recycled EXCEPT !.done = (recycled.big_tx_resample_times_limit <= 0)]]
    ELSE IF check = "Pending"
         THEN [pool |-> p1, l |-> [l EXCEPT !.recycle_txs = Append(@, tx)]]
    ELSE [pool |-> AfterRepack(
                       insert_transaction_without_readiness_check(
                           p1, tx, TRUE, TRUE, None, sponsored_of(p1, tx.hash), current_timestamp, tie).pool,
                       tx.sender),
          l |-> [l EXCEPT !.total_tx_gas_limit = @ + tx.gas,
                          !.total_tx_size = @ + tx.rlp_size,
                          !.packed_transactions = Append(@, tx),
                          !.done = (Len(l.packed_transactions) + 1 >= l.num_txs)]]

\* [pool, l] after one pass of the loop; pop is the choice pop() made and
\* check the answer of fast_recheck.
PackIteration(p, l, pop, check, current_timestamp, tie) ==
    LET s == Unwrap(pop)
        tx == p.ready_account_pool[s].tx
        p1 == [p EXCEPT !.ready_account_pool = ReadyAccountPool_remove(@, s)]
        recycled == [l EXCEPT !.recycle_txs = Append(@, tx)]
        l2 == [l EXCEPT !.total_tx_gas_limit = @ + tx.gas,
                        !.total_tx_size = @ + tx.rlp_size,
                        !.packed_transactions = Append(@, tx),
                        !.done = (Len(l.packed_transactions) + 1 >= l.num_txs)]
    IN
    IF ~IsSome(pop) THEN [pool |-> p, l |-> [l EXCEPT !.done = TRUE]]
    ELSE IF s = "rem_by_zero" THEN [pool |-> [p EXCEPT !.panic = "rem_by_zero"], l |-> l]
    ELSE IF l.block_gas_limit - l.total_tx_gas_limit < tx.gas
            \/ l.block_size_limit - l.total_tx_size < tx.rlp_size
         THEN IF l.big_tx_resample_times_limit > 0
              THEN [pool |-> p1,
                    l |-> [recycled EXCEPT !.big_tx_resample_times_limit = @ - 1]]
              ELSE [pool |-> p1, l |-> [recycled EXCEPT !.done = TRUE]]
    ELSE IF check = "Pending" THEN [pool |-> p1, l |-> recycled]
    ELSE IF check = "Drop" THEN [pool |-> p1, l |-> l]
    ELSE [pool |-> AfterRepack(
                       insert_transaction_without_readiness_check(
                           p1, tx, TRUE, TRUE, None, sponsored_of(p1, tx.hash), current_timestamp, tie).pool,
                       tx.sender),
          l |-> l2]

RECURSIVE Recycle(_, _)
Recycle(rap, recycle_txs) ==
    IF recycle_txs = << >> THEN rap
    ELSE Recycle(ReadyAccountPool_insert(rap, Head(recycle_txs)), Tail(recycle_txs))

\* for tx in packed_transactions.iter().rev()
RECURSIVE Unpack(_, _, _, _)
Unpack(p, packed_transactions, current_timestamp, tie) ==
    IF packed_transactions = << >> \/ to_panic(p) THEN p
    ELSE LET n == Len(packed_transactions)
             tx == packed_transactions[n]
         IN  Unpack(AfterRepack(
                        insert_transaction_without_readiness_check(
                            p, tx, FALSE, TRUE, None, sponsored_of(p, tx.hash), current_timestamp, tie).pool,
                        tx.sender),
                    SubSeq(packed_transactions, 1, n - 1), current_timestamp, tie)

PackEpilogue_without_unpack(p, l, current_timestamp, tie) ==
    [p EXCEPT !.ready_account_pool = Recycle(@, l.recycle_txs)]

PackEpilogue(p, l, current_timestamp, tie) ==
    Unpack([p EXCEPT !.ready_account_pool = Recycle(@, l.recycle_txs)],
           l.packed_transactions, current_timestamp, tie)

-----------------------------------------------------------------------------
(* The state machine. *)

SetPool(p) ==
    /\ capacity' = p.capacity
    /\ unpacked_transaction_count' = p.unpacked_transaction_count
    /\ deferred_pool' = p.deferred_pool
    /\ ready_account_pool' = p.ready_account_pool
    /\ ready_nonces_and_balances' = p.ready_nonces_and_balances
    /\ garbage_collector' = p.garbage_collector
    /\ txs' = p.txs
    /\ tx_sponsored_gas_map' = p.tx_sponsored_gas_map
    /\ underflow' = p.underflow
    /\ panic' = p.panic

Idle == panic = "" /\ packing = None

Done(op, kind, min_gas_price, ret) ==
    [op |-> op, kind |-> kind, min_gas_price |-> min_gas_price, ret |-> ret]

Init ==
    /\ capacity = MaxCapacity
    /\ total_received_count = 0
    /\ unpacked_transaction_count = 0
    /\ deferred_pool = EmptyMap
    /\ ready_account_pool = EmptyMap
    /\ ready_nonces_and_balances = EmptyMap
    /\ garbage_collector = EmptyMap
    /\ txs = EmptyMap
    /\ tx_sponsored_gas_map = EmptyMap
    /\ underflow = FALSE
    /\ panic = ""
    /\ now = 0
    /\ packing = None
    /\ last = Done("new", "Ok", 0, None)

Insert ==
    /\ Idle
    /\ \E transaction \in TxUniverse, packed \in BOOLEAN, force \in BOOLEAN :
       \E o \in OracleAnswers(transaction), tie \in TiesFor(Pool, transaction) :
       \E r \in {insert_transaction_with_readiness_check(
                    Pool, transaction, packed, force, o, now, tie)} :
         /\ SetPool(r.pool)
         /\ last' = Done("insert", r.kind, r.min_gas_price, None)
    /\ UNCHANGED <<total_received_count, now, packing>>

Notify ==
    /\ Idle
    /\ \E accounts \in AccountVecs :
       \E p \in {notify_modified_accounts(Pool, accounts, now)} : SetPool(p)
    /\ last' = Done("notify", "Ok", 0, None)
    /\ UNCHANGED <<total_received_count, now, packing>>

PackBegin ==
    /\ Idle
    /\ \E a \in PackArgs : packing' = Some(PackLocals(a[1], a[2], a[3]))
    /\ last' = Done("pack", "Running", 0, None)
    /\ UNCHANGED <<poolVars, now>>

PackLoop ==
    /\ panic = ""
    /\ IsSome(packing)
    /\ ~Unwrap(packing).done
    /\ \E pop \in PopChoices(ready_account_pool), check \in PackingCheckResults :
       \E tie \in PackTies(Pool, pop) :
       \E r \in {PackIteration(Pool, Unwrap(packing), pop, check, now, tie)} :
         /\ SetPool(r.pool)
         /\ packing' = Some(r.l)
    /\ UNCHANGED <<total_received_count, now, last>>

PackReturn ==
    /\ panic = ""
    /\ IsSome(packing)
    /\ Unwrap(packing).done
    /\ \E tie \in Ties :
       \E p \in {PackEpilogue(Pool, Unwrap(packing), now, tie)} : SetPool(p)
    /\ packing' = None
    /\ last' = Done("pack", "Ok", 0, None)
    /\ UNCHANGED <<total_received_count, now>>

Next == Insert \/ Notify \/ PackBegin \/ PackLoop \/ PackReturn

Spec == Init /\ [][Next]_vars

-----------------------------------------------------------------------------
(* The state machine with the pool as it was when pack_transactions was      *)
(* called kept in last, to compare the pool it leaves with.                  *)

RoundTripPackBegin ==
    /\ Idle
    /\ \E a \in PackArgs : packing' = Some(PackLocals(a[1], a[2], a[3]))
    /\ last' = Done("pack", "Running", 0, Some(Pool))
    /\ UNCHANGED <<poolVars, now>>

(* One turn of the loop; last notes a recheck that answered Drop for a        *)
(* transaction the loop had taken out of the ReadyIndex.                     *)
RoundTripPackLoop ==
    /\ panic = ""
    /\ IsSome(packing)
    /\ ~Unwrap(packing).done
    /\ \E pop \in PopChoices(ready_account_pool), check \in PackingCheckResults :
       \E tie \in PackTies(Pool, pop) :
       \E r \in {PackIteration(Pool, Unwrap(packing), pop, check, now, tie)} :
         /\ SetPool(r.pool)
         /\ packing' = Some(r.l)
         /\ last' = IF /\ check = "Drop"
                        /\ r.l = Unwrap(packing)
                        /\ r.pool.ready_account_pool # ready_account_pool
                     THEN [last EXCEPT !.kind = "Dropped"]
                     ELSE last
    /\ UNCHANGED <<total_received_count, now>>

(* The return; last keeps the pool of the call and the returned list. *)
RoundTripPackReturn ==
    /\ panic = ""
    /\ IsSome(packing)
    /\ Unwrap(packing).done
    /\ \E tie \in Ties :
       \E p \in {PackEpilogue(Pool, Unwrap(packing), now, tie)} : SetPool(p)
    /\ packing' = None
    /\ last' = [op |-> "pack",
                kind |-> IF last.kind = "Dropped" THEN "OkDropped" ELSE "Ok",
                min_gas_price |-> 0,
                ret |-> last.ret,
                packed_transactions |-> Unwrap(packing).packed_transactions]
    /\ UNCHANGED <<total_received_count, now>>

NextRoundTrip ==
    \/ Insert
    \/ Notify
    \/ RoundTripPackBegin
    \/ RoundTripPackLoop
    \/ RoundTripPackReturn

SpecRoundTrip == Init /\ [][NextRoundTrip]_vars

-----------------------------------------------------------------------------
(* The state machine with, in last, the nonce notify_modified_accounts last  *)
(* reported for each sender since the last insert call for that sender, and  *)
(* the list the last pack_transactions returned.                             *)

NoneNotified == [s \in Senders |-> None]
Notified == IF "notified" \in DOMAIN last THEN last.notified ELSE NoneNotified

NotifyPackLast(op, kind, notified, packed_transactions) ==
    [op |-> op, kind |-> kind, min_gas_price |-> 0, ret |-> None,
     notified |-> notified, packed_transactions |-> packed_transactions]

NotifyPackInsert ==
    /\ Idle
    /\ \E transaction \in TxUniverse, packed \in BOOLEAN, force \in BOOLEAN :
       \E o \in OracleAnswers(transaction), tie \in TiesFor(Pool, transaction) :
       \E r \in {insert_transaction_with_readiness_check(
                    Pool, transaction, packed, force, o, now, tie)} :
         /\ SetPool(r.pool)
         /\ last' = NotifyPackLast("insert", "Ok",
                        [Notified EXCEPT ![transaction.sender] = None], << >>)
    /\ UNCHANGED <<total_received_count, now, packing>>

NotifyPackNotify ==
    /\ Idle
    /\ \E accounts \in AccountVecs :
       \E p \in {notify_modified_accounts(Pool, accounts, now)} :
         /\ SetPool(p)
         /\ last' = NotifyPackLast("notify", "Ok",
                        [Notified EXCEPT ![accounts[1].address] = Some(accounts[1].nonce)],
                        << >>)
    /\ UNCHANGED <<total_received_count, now, packing>>

NotifyPackBegin ==
    /\ Idle
    /\ \E a \in PackArgs : packing' = Some(PackLocals(a[1], a[2], a[3]))
    /\ last' = NotifyPackLast("pack", "Running", Notified, << >>)
    /\ UNCHANGED <<poolVars, now>>

NotifyPackReturn ==
    /\ panic = ""
    /\ IsSome(packing)
    /\ Unwrap(packing).done
    /\ \E tie \in Ties :
       \E p \in {PackEpilogue(Pool, Unwrap(packing), now, tie)} : SetPool(p)
    /\ packing' = None
    /\ last' = NotifyPackLast("pack", "Ok", Notified,
                               Unwrap(packing).packed_transactions)
    /\ UNCHANGED <<total_received_count, now>>

NextNotifyPack ==
    \/ NotifyPackInsert
    \/ NotifyPackNotify
    \/ NotifyPackBegin
    \/ PackLoop
    \/ NotifyPackReturn

SpecNotifyPack == Init /\ [][NextNotifyPack]_vars

-----------------------------------------------------------------------------
(* The DeferredPool on its own, driven as test_deferred_pool_insert_and_remove *)
(* and test_deferred_pool_recalculate_readiness drive it: entries of one       *)
(* sender are inserted and removed, and the readiness is asked for.            *)

MaxRunNonce == 3
MaxRunBalance == 5

RunNonces == 0..MaxRunNonce
RunEntries ==
    {TxWithReadyInfo(SignedTransaction("alice", n, g), k, 0, 0) :
        n \in RunNonces, g \in {1, 2}, k \in BOOLEAN}

DpInsert ==
    /\ \E entry \in RunEntries, force \in BOOLEAN :
       \E r \in {DeferredPool_insert(deferred_pool, entry, force)} :
         /\ deferred_pool' = r.dp
         /\ last' = Done("DeferredPool::insert", r.result.kind, r.result.min_gas_price, None)
    /\ UNCHANGED <<capacity, total_received_count, unpacked_transaction_count,
                   ready_account_pool, ready_nonces_and_balances, garbage_collector,
                   txs, tx_sponsored_gas_map, underflow, panic, now, packing>>

DpRemoveLowestNonce ==
    /\ \E addr \in Senders :
       \E r \in {remove_lowest_nonce(deferred_pool, addr)} :
         /\ deferred_pool' = r.dp
         /\ last' = Done("DeferredPool::remove_lowest_nonce", "Ok", 0, r.ret)
    /\ UNCHANGED <<capacity, total_received_count, unpacked_transaction_count,
                   ready_account_pool, ready_nonces_and_balances, garbage_collector,
                   txs, tx_sponsored_gas_map, underflow, panic, now, packing>>

DpRecalculateReadiness ==
    /\ \E addr \in Senders, nonce \in 0..(MaxRunNonce + 1), balance \in 0..MaxRunBalance :
         last' = Done("DeferredPool::recalculate_readiness_with_local_info", "Ok", 0,
                      DeferredPool_recalculate_readiness_with_local_info(
                          deferred_pool, addr, nonce, balance))
    /\ UNCHANGED <<poolVars, now, packing>>

NextDeferredPool == DpInsert \/ DpRemoveLowestNonce \/ DpRecalculateReadiness

SpecDeferredPool == Init /\ [][NextDeferredPool]_vars

-----------------------------------------------------------------------------
(* The DeferredPool as test_deferred_pool_recalculate_readiness fills it:    *)
(* alice's transactions at nonces 5 to 9, gas 50000 at gas price 10 and      *)
(* value 10000, inserted without force, and the readiness asked for with the *)
(* balance exact_cost or one less.                                           *)

\* A faulty variant of new_test_tx: the value is dropped.
new_test_tx_without_value(sender, nonce, gas_price, value) ==
    [SignedTransaction(sender, nonce, gas_price) EXCEPT !.gas = 50000, !.contract_call = TRUE]

new_test_tx(sender, nonce, gas_price, value) ==
    [SignedTransaction(sender, nonce, gas_price) EXCEPT
        !.gas = 50000, !.value = value, !.contract_call = TRUE]

new_test_tx_with_read_info(sender, nonce, gas_price, value, packed) ==
    TxWithReadyInfo(new_test_tx(sender, nonce, gas_price, value), packed, 0, 0)

exact_cost == 4 * (50000 * 10 + 10000)

S1Nonces == 5..9
S1Entries == {new_test_tx_with_read_info("alice", n, 10, 10000, k) : n \in S1Nonces, k \in BOOLEAN}

S1Insert ==
    /\ \E entry \in S1Entries :
       \E r \in {DeferredPool_insert(deferred_pool, entry, FALSE)} :
         /\ deferred_pool' = r.dp
         /\ last' = Done("DeferredPool::insert", r.result.kind, r.result.min_gas_price, None)
    /\ UNCHANGED <<capacity, total_received_count, unpacked_transaction_count,
                   ready_account_pool, ready_nonces_and_balances, garbage_collector,
                   txs, tx_sponsored_gas_map, underflow, panic, now, packing>>

S1RecalculateReadiness ==
    /\ \E nonce \in 4..10, balance \in {exact_cost - 1, exact_cost} :
         last' = [op |-> "DeferredPool::recalculate_readiness_with_local_info",
                  kind |-> "Ok", min_gas_price |-> 0,
                  ret |-> DeferredPool_recalculate_readiness_with_local_info(
                              deferred_pool, "alice", nonce, balance),
                  nonce |-> nonce, balance |-> balance]
    /\ UNCHANGED <<poolVars, now, packing>>

NextS1 == S1Insert \/ S1RecalculateReadiness

SpecS1 == Init /\ [][NextS1]_vars

-----------------------------------------------------------------------------
(* The pool driven with transactions at the edge of the nonces it accepts:   *)
(* the state nonce is 0 or 10, and the nonce of a transaction is the state   *)
(* nonce plus FURTHEST_FUTURE_TRANSACTION_NONCE_OFFSET, or one less.         *)

FarStateNonces == {0, 10}
FarNonces ==
    {n + FURTHEST_FUTURE_TRANSACTION_NONCE_OFFSET - 1 : n \in FarStateNonces}
    \cup {n + FURTHEST_FUTURE_TRANSACTION_NONCE_OFFSET : n \in FarStateNonces}
FarTxUniverse == {SignedTransaction(s, n, 1) : s \in Senders, n \in FarNonces}

FarOracleAnswers ==
    {Answer([sponsor |-> "none", privilege |-> "no"],
            [first |-> "ok", nonce |-> n, balance |-> b, second |-> f]) :
        n \in FarStateNonces, b \in Balances, f \in {"ok", "fail"}}

FarInsert ==
    /\ Idle
    /\ \E transaction \in FarTxUniverse, packed \in BOOLEAN, force \in BOOLEAN :
       \E o \in FarOracleAnswers, tie \in TiesFor(Pool, transaction) :
       \E r \in {insert_transaction_with_readiness_check(
                    Pool, transaction, packed, force, o, now, tie)} :
         /\ SetPool(r.pool)
         /\ last' = [op |-> "insert", kind |-> r.kind, min_gas_price |-> r.min_gas_price,
                     ret |-> None, nonce |-> transaction.nonce, state_nonce |-> o.nonce]
    /\ UNCHANGED <<total_received_count, now, packing>>

NextFarFuture == FarInsert

SpecFarFuture == Init /\ [][NextFarFuture]_vars

-----------------------------------------------------------------------------
(* The pool holding transactions whose weight in the ready_account_pool is   *)
(* 0: their gas price is below tx_weight_scaling.                            *)

ZeroWeightTxUniverse ==
    {SignedTransaction(s, n, g) : s \in Senders, n \in StateNonces, g \in {0, tx_weight_scaling}}

ZeroWeightOracleAnswers ==
    {Answer([sponsor |-> "none", privilege |-> "no"],
            [first |-> "ok", nonce |-> n, balance |-> b, second |-> "ok"]) :
        n \in StateNonces, b \in Balances}

ZeroWeightInsert ==
    /\ Idle
    /\ \E transaction \in ZeroWeightTxUniverse, packed \in BOOLEAN :
       \E o \in ZeroWeightOracleAnswers, tie \in TiesFor(Pool, transaction) :
       \E r \in {insert_transaction_with_readiness_check(
                    Pool, transaction, packed, FALSE, o, now, tie)} :
         /\ SetPool(r.pool)
         /\ last' = Done("insert", r.kind, r.min_gas_price, None)
    /\ UNCHANGED <<total_received_count, now, packing>>

NextZeroWeight == ZeroWeightInsert \/ PackBegin \/ PackLoop \/ PackReturn

SpecZeroWeight == Init /\ [][NextZeroWeight]_vars

-----------------------------------------------------------------------------
(* The pool of SpecZeroWeight, cleared at any time between two operations.   *)
(* last keeps the capacity the pool had when clear was called.               *)

Clear ==
    /\ Idle
    /\ \E p \in clear(Pool) :
         /\ SetPool(p)
         /\ total_received_count' = IF p.panic = "" THEN 0 ELSE total_received_count
         /\ last' = [op |-> "clear", kind |-> IF p.panic = "" THEN "Ok" ELSE "Panic",
                     min_gas_price |-> 0, ret |-> None, capacity |-> capacity]
    /\ UNCHANGED <<now, packing>>

NextClear == ZeroWeightInsert \/ PackBegin \/ PackLoop \/ PackReturn \/ Clear

SpecClear == Init /\ [][NextClear]_vars

-----------------------------------------------------------------------------
(* collect_garbage among several senders: a pool of capacity GcCapacity,     *)
(* four senders, gas prices 1 to 3, every transaction submitted unpacked and *)
(* unforced.  last keeps the transaction of the last insert call and the     *)
(* transactions the call took out of txs.                                    *)

GcCapacity == 3
GcSenders == {"alice", "bob", "carol", "dave"}
GcGasPrices == 1..3
GcTxUniverse ==
    {SignedTransaction(s, 0, g) : s \in GcSenders, g \in GcGasPrices}
    \cup {SignedTransaction("alice", n, 2) : n \in 1..2}

GcOracleAnswers ==
    {Answer([sponsor |-> "none", privilege |-> "no"],
            [first |-> "ok", nonce |-> n, balance |-> b, second |-> "ok"]) :
        n \in StateNonces, b \in Balances}

\* The orders among equal nodes of the garbage collector gc.
GcTies(gc) ==
    {t \in [1..Cardinality(DOMAIN gc) -> DOMAIN gc] :
        \A x \in DOMAIN gc : \E i \in DOMAIN t : t[i] = x}

GcTiesFor(p, tx) ==
    IF is_full(p) /\ ~check_sender_and_nonce_exists(p.deferred_pool, tx.sender, tx.nonce)
    THEN GcTies(p.garbage_collector)
    ELSE {CHOOSE t \in GcTies(p.garbage_collector) : TRUE}

GcInit ==
    /\ capacity = GcCapacity
    /\ total_received_count = 0
    /\ unpacked_transaction_count = 0
    /\ deferred_pool = EmptyMap
    /\ ready_account_pool = EmptyMap
    /\ ready_nonces_and_balances = EmptyMap
    /\ garbage_collector = EmptyMap
    /\ txs = EmptyMap
    /\ tx_sponsored_gas_map = EmptyMap
    /\ underflow = FALSE
    /\ panic = ""
    /\ now = 0
    /\ packing = None
    /\ last = Done("new", "Ok", 0, None)

GcInsert ==
    /\ Idle
    /\ \E transaction \in GcTxUniverse :
       \E o \in GcOracleAnswers, tie \in GcTiesFor(Pool, transaction) :
       \E r \in {insert_transaction_with_readiness_check(
                    Pool, transaction, FALSE, FALSE, o, now, tie)} :
         /\ SetPool(r.pool)
         /\ last' = [op |-> "insert", kind |-> r.kind, min_gas_price |-> r.min_gas_price,
                     ret |-> None, transaction |-> transaction,
                     removed |-> {txs[h] : h \in DOMAIN txs \ DOMAIN r.pool.txs}]
    /\ UNCHANGED <<total_received_count, now, packing>>

NextGc == GcInsert

SpecGc == GcInit /\ [][NextGc]_vars

-----------------------------------------------------------------------------
(* Transactions of one sender, each nonce submitted once, in any order and   *)
(* with one oracle answer for all the calls.  last keeps that answer and the *)
(* calls made.                                                               *)

OrderNonces == 0..2
OrderBalances == 0..3
OrderTxUniverse == {SignedTransaction("alice", n, g) : n \in OrderNonces, g \in 1..2}

OrderOracleAnswers ==
    {Answer([sponsor |-> "none", privilege |-> "no"],
            [first |-> "ok", nonce |-> n, balance |-> b, second |-> f]) :
        n \in StateNonces, b \in OrderBalances, f \in {"ok", "fail"}}

OrderCalls == IF "calls" \in DOMAIN last THEN last.calls ELSE {}

OrderInsert ==
    /\ Idle
    /\ \E transaction \in OrderTxUniverse, packed \in BOOLEAN :
       \E o \in IF "oracle" \in DOMAIN last THEN {last.oracle} ELSE OrderOracleAnswers :
       \E r \in {insert_transaction_with_readiness_check(
                    Pool, transaction, packed, FALSE, o, now, CHOOSE t \in Ties : TRUE)} :
         /\ \A c \in OrderCalls : c.transaction.nonce # transaction.nonce
         /\ SetPool(r.pool)
         /\ last' = [op |-> "insert", kind |-> r.kind, min_gas_price |-> r.min_gas_price,
                     ret |-> None, oracle |-> o, transaction |-> transaction,
                     calls |-> OrderCalls \cup {[transaction |-> transaction, packed |-> packed]}]
    /\ UNCHANGED <<total_received_count, now, packing>>

NextOrder == OrderInsert

SpecOrder == GcInit /\ [][NextOrder]_vars

-----------------------------------------------------------------------------
(* The ReadyAccountPool on its own under each configuration                  *)
(* (tx_weight_scaling, tx_weight_exp): transactions are inserted and popped. *)
(* last keeps the configuration the pool was made with.                      *)

\* A faulty variant of weight_of: a scaled weight of zero gives base weight 1.
weight_of_at_least_one(gas_price, scaling, exp) ==
    LET scaled_weight == gas_price \div scaling
        base_weight == IF scaled_weight = 0 THEN 1 ELSE scaled_weight
    IN  Pow(base_weight, exp)

\* The weight ReadyAccountPool::insert computes under a configuration.
weight_of(gas_price, scaling, exp) ==
    LET scaled_weight == gas_price \div scaling
        base_weight == IF scaled_weight = 0 THEN 0 ELSE scaled_weight
    IN  Pow(base_weight, exp)

WeightConfigs == [scaling : 1..2, exp : 0..2]
WeightTxUniverse == {SignedTransaction(s, 0, g) : s \in Senders, g \in 0..2}

WeightInsert ==
    /\ panic = ""
    /\ \E tx \in WeightTxUniverse :
       \E cfg \in IF "config" \in DOMAIN last THEN {last.config} ELSE WeightConfigs :
         /\ ready_account_pool' =
                MapPut(ready_account_pool, tx.sender,
                       [tx |-> tx, weight |-> weight_of(tx.gas_price, cfg.scaling, cfg.exp)])
         /\ last' = [op |-> "ReadyAccountPool::insert", kind |-> "Ok",
                     min_gas_price |-> 0, ret |-> None, config |-> cfg]
    /\ UNCHANGED <<capacity, total_received_count, unpacked_transaction_count,
                   deferred_pool, ready_nonces_and_balances, garbage_collector, txs,
                   tx_sponsored_gas_map, underflow, panic, now, packing>>

WeightPop ==
    /\ panic = ""
    /\ "config" \in DOMAIN last
    /\ \E pop \in PopChoices(ready_account_pool) :
         IF ~IsSome(pop)
         THEN /\ last' = [last EXCEPT !.op = "ReadyAccountPool::pop", !.ret = None]
              /\ UNCHANGED <<ready_account_pool, panic>>
         ELSE IF Unwrap(pop) = "rem_by_zero"
         THEN /\ panic' = "rem_by_zero"
              /\ last' = [last EXCEPT !.op = "ReadyAccountPool::pop", !.ret = None]
              /\ UNCHANGED ready_account_pool
         ELSE /\ ready_account_pool' = ReadyAccountPool_remove(ready_account_pool, Unwrap(pop))
              /\ last' = [last EXCEPT !.op = "ReadyAccountPool::pop",
                                      !.ret = Some(ready_account_pool[Unwrap(pop)].tx)]
              /\ UNCHANGED panic
    /\ UNCHANGED <<capacity, total_received_count, unpacked_transaction_count,
                   deferred_pool, ready_nonces_and_balances, garbage_collector, txs,
                   tx_sponsored_gas_map, underflow, now, packing>>

NextWeight == WeightInsert \/ WeightPop

SpecWeight == Init /\ [][NextWeight]_vars

-----------------------------------------------------------------------------
(* What the properties below speak of. *)

\* The <<sender, nonce>> that hold an entry.
Slots(dp) == UNION {{<<s, n>> : n \in DOMAIN dp[s]} : s \in DOMAIN dp}

NumUnpacked(dp) == Cardinality({x \in Slots(dp) : ~dp[x[1]][x[2]].packed})

Resident(dp, tx) ==
    /\ <<tx.sender, tx.nonce>> \in Slots(dp)
    /\ dp[tx.sender][tx.nonce].transaction.hash = tx.hash

\* The readiness computation on the bucket of s with the cached nonce and balance.
Computed(p, s) ==
    IF s \in DOMAIN p.ready_nonces_and_balances
    THEN DeferredPool_recalculate_readiness_with_local_info(
             p.deferred_pool, s, p.ready_nonces_and_balances[s][1],
             p.ready_nonces_and_balances[s][2])
    ELSE None

SlotMatches(p, s) == ReadyAccountPool_get(p.ready_account_pool, s) = Computed(p, s)

AllSlotsMatch(p) == \A s \in Senders : SlotMatches(p, s)

\* The indexed transaction of s is at the cached nonce.
IndexedAtKnownNonce(p, s) ==
    s \in DOMAIN p.ready_account_pool =>
        /\ s \in DOMAIN p.ready_nonces_and_balances
        /\ p.ready_account_pool[s].tx.nonce = p.ready_nonces_and_balances[s][1]

\* The indexed transaction of s is at the cached nonce or after it, every nonce
\* between the two holding a packed entry.
IndexedAfterPackedRun(p, s) ==
    s \in DOMAIN p.ready_account_pool =>
        /\ s \in DOMAIN p.ready_nonces_and_balances
        /\ s \in DOMAIN p.deferred_pool
        /\ LET n == p.ready_account_pool[s].tx.nonce
               k == p.ready_nonces_and_balances[s][1]
           IN  /\ n >= k
               /\ \A m \in k..(n - 1) :
                    m \in DOMAIN p.deferred_pool[s] /\ p.deferred_pool[s][m].packed

Succeeded(kind) == kind \in {"NewAdded", "Updated"}

InsertErrors == {"OracleFailure", "TooFarFuture", "StaleNonce", "PoolFull",
                 "ReplaceUnderpriced", "OracleFailureAfterInsert"}

InsertSucceeds == last'.op = "insert" /\ Succeeded(last'.kind)

-----------------------------------------------------------------------------
(* Properties of Spec. *)

\* C1: as long as the program runs, unpacked_transaction_count is the number
\* of DeferredPool entries whose packed flag is false, and no checked_sub of
\* the counter has taken its under-flow branch.
C1_UnpackedCountIsExact ==
    panic = "" =>
        /\ unpacked_transaction_count = NumUnpacked(deferred_pool)
        /\ ~underflow

\* A replacement has just left one unpacked and one packed entry in the pool.
C1_Witness ==
    /\ last.op = "insert" /\ last.kind = "Updated"
    /\ Cardinality(Slots(deferred_pool)) = 2
    /\ unpacked_transaction_count = 1
    /\ NumUnpacked(deferred_pool) = 1

\* C2: as long as the program runs, txs holds exactly the transactions of the
\* DeferredPool: as many keys as there are entries, each key the hash of the
\* transaction it maps to, which sits at its sender and nonce, and every
\* entry's hash a key.
C2_TxsAreTheDeferredPool ==
    panic = "" =>
        /\ Cardinality(DOMAIN txs) = Cardinality(Slots(deferred_pool))
        /\ \A h \in DOMAIN txs : txs[h].hash = h /\ Resident(deferred_pool, txs[h])
        /\ \A x \in Slots(deferred_pool) :
             deferred_pool[x[1]][x[2]].transaction.hash \in DOMAIN txs

\* A pack_transactions has returned with two transactions in the pool, one of
\* them the replacement <<"bob", 0, 2>>.
C2_Witness ==
    /\ last.op = "pack" /\ last.kind = "Ok"
    /\ Cardinality(DOMAIN txs) = 2
    /\ <<"bob", 0, 2>> \in DOMAIN txs

\* C3: between the public operations, every transaction of the
\* ready_account_pool sits in the DeferredPool at its sender and nonce, with
\* the same hash and the packed flag false.
C3_IndexedIsResidentUnpacked ==
    Idle =>
        \A s \in DOMAIN ready_account_pool :
            LET tx == ready_account_pool[s].tx IN
            /\ Resident(deferred_pool, tx)
            /\ ~deferred_pool[s][tx.nonce].packed

C5_SlotIsTheComputation ==
    [][(Idle /\ AllSlotsMatch(Pool) /\ InsertSucceeds) => AllSlotsMatch(Pool)']_vars

\* C5, amended: the slot is what the readiness computation returns for the
\* cached nonce and balance after an insert that succeeds, for the sender of
\* the transaction; after notify_modified_accounts, for the account notified;
\* and after pack_transactions, for the senders of the transactions returned.
C5_SlotIsTheComputationWhereRecalculated ==
    /\ Idle =>
        /\ \A transaction \in TxUniverse, packed \in BOOLEAN, force \in BOOLEAN :
           \A o \in OracleAnswers(transaction), tie \in TiesFor(Pool, transaction) :
             LET r == insert_transaction_with_readiness_check(
                          Pool, transaction, packed, force, o, now, tie)
             IN  Succeeded(r.kind) => SlotMatches(r.pool, transaction.sender)
        /\ \A accounts \in AccountVecs :
             SlotMatches(notify_modified_accounts(Pool, accounts, now),
                         accounts[1].address)
    /\ (panic = "" /\ IsSome(packing) /\ Unwrap(packing).done) =>
        \A tie \in Ties :
            LET l == Unwrap(packing)
                p == PackEpilogue(Pool, l, now, tie)
            IN  ~to_panic(p) =>
                  \A i \in DOMAIN l.packed_transactions :
                      SlotMatches(p, l.packed_transactions[i].sender)

\* pack_transactions is about to return two transactions.
C5_Witness ==
    /\ panic = ""
    /\ IsSome(packing)
    /\ Unwrap(packing).done
    /\ Len(Unwrap(packing).packed_transactions) = 2

\* C6: total_deferred() never exceeds the capacity.
C6_NeverOverCapacity == total_deferred(Pool) <= capacity

\* An insert has been refused by a full pool.
C6_Witness ==
    /\ last.op = "insert" /\ last.kind = "PoolFull"
    /\ total_deferred(Pool) = capacity

\* C7: an insert_transaction_with_readiness_check that returns an error
\* leaves every field of the pool as it was.
C7_ErrorLeavesThePoolUnchanged ==
    [][(last'.op = "insert" /\ last'.kind \in InsertErrors) => UNCHANGED poolVars]_vars

C9_UnderpricedIsRefused ==
    Idle =>
        \A transaction \in TxUniverse, packed \in BOOLEAN :
        \A n \in StateNonces, b \in Balances :
            (/\ check_sender_and_nonce_exists(
                    deferred_pool, transaction.sender, transaction.nonce)
             /\ transaction.gas_price
                  <= deferred_pool[transaction.sender][transaction.nonce].transaction.gas_price)
            =>
            LET prev == deferred_pool[transaction.sender][transaction.nonce]
                r == insert_transaction_without_readiness_check(
                         Pool, transaction, packed, FALSE, Some(<<n, b>>), <<0, 0>>,
                         now, CHOOSE t \in Ties : TRUE)
            IN  /\ r.result = Failed(prev.transaction.gas_price)
                /\ r.pool = Pool

\* An insert of alice's nonce 0 has been refused, the price to exceed being
\* the 2 of the entry that is there.
C9_Witness ==
    /\ last.op = "insert" /\ last.kind = "ReplaceUnderpriced" /\ last.min_gas_price = 2
    /\ Resident(deferred_pool, SignedTransaction("alice", 0, 2))

-----------------------------------------------------------------------------
(* Properties of SpecDeferredPool. *)

\* The nonces of the contiguous run of bucket that starts at base.
Run(bucket, base) ==
    {n \in DOMAIN bucket : n >= base /\ \A m \in base..n : m \in DOMAIN bucket}

\* The first nonce of the run whose entry is not packed, if there is one.
FirstUnpacked(bucket, base) ==
    {n \in Run(bucket, base) :
        ~bucket[n].packed /\ \A m \in base..(n - 1) : bucket[m].packed}

RECURSIVE CostOfRun(_, _, _)
CostOfRun(bucket, from, to) ==
    IF from > to THEN 0
    ELSE get_tx_cost(bucket[from]) + CostOfRun(bucket, from + 1, to)

\* C10: for every base nonce and balance, the readiness computation returns
\* the first unpacked entry of the contiguous run from the base nonce if the
\* costs of the run up to and including it sum to no more than the balance,
\* and None otherwise.
C10_ReadinessIsFirstUnpackedOfCoveredRun ==
    \A addr \in Senders, base \in 0..(MaxRunNonce + 1), balance \in 0..MaxRunBalance :
        LET ret == DeferredPool_recalculate_readiness_with_local_info(
                       deferred_pool, addr, base, balance)
            bucket == deferred_pool[addr]
            first == FirstUnpacked(bucket, base)
        IN  IF addr \in DOMAIN deferred_pool
               /\ first # {}
               /\ \A n \in first : CostOfRun(bucket, base, n) <= balance
            THEN \E n \in first : ret = Some(bucket[n].transaction)
            ELSE ret = None

\* The readiness computation has returned alice's nonce 3, the entries at
\* nonces 0 to 2 being packed.
C10_Witness ==
    /\ last.op = "DeferredPool::recalculate_readiness_with_local_info"
    /\ IsSome(last.ret)
    /\ Unwrap(last.ret).nonce = 3
    /\ "alice" \in DOMAIN deferred_pool
    /\ \A n \in 0..2 : n \in DOMAIN deferred_pool["alice"] /\ deferred_pool["alice"][n].packed

-----------------------------------------------------------------------------
(* Properties of SpecS1. *)

\* alice's bucket holds nonces 5 to 9, those in P packed and the others not.
S1Bucket(P) ==
    /\ "alice" \in DOMAIN deferred_pool
    /\ DOMAIN deferred_pool["alice"] = S1Nonces
    /\ \A n \in S1Nonces : deferred_pool["alice"][n].packed <=> n \in P

S1Ready(nonce, balance) ==
    DeferredPool_recalculate_readiness_with_local_info(deferred_pool, "alice", nonce, balance)

S1Tx(n) == new_test_tx("alice", n, 10, 10000)

\* C11 as stated: with nonces 5 to 9 all unpacked, base nonce 5 and balance
\* 2,039,999 give None, and balance 2,040,000 gives the transaction at nonce 5.
C11_S1AllUnpacked ==
    S1Bucket({}) =>
        /\ S1Ready(5, 2039999) = None
        /\ S1Ready(5, 2040000) = Some(S1Tx(5))

\* C11, amended: with nonces 5, 6, 7 packed and 8, 9 unpacked, base nonce 5
\* and balance 2,039,999 give None and balance 2,040,000 gives the
\* transaction at nonce 8; with all five unpacked both balances give the
\* transaction at nonce 5.
C11_S1PackedPrefix ==
    /\ exact_cost = 2040000
    /\ S1Bucket({5, 6, 7}) =>
        /\ S1Ready(5, exact_cost - 1) = None
        /\ S1Ready(5, exact_cost) = Some(S1Tx(8))
    /\ S1Bucket({}) =>
        /\ S1Ready(5, exact_cost - 1) = Some(S1Tx(5))
        /\ S1Ready(5, exact_cost) = Some(S1Tx(5))

\* The readiness has been asked for with base nonce 5 and balance 2,039,999,
\* nonces 5, 6, 7 being packed, and None was returned.
C11_Witness ==
    /\ S1Bucket({5, 6, 7})
    /\ last.op = "DeferredPool::recalculate_readiness_with_local_info"
    /\ last.nonce = 5 /\ last.balance = exact_cost - 1
    /\ last.ret = None

-----------------------------------------------------------------------------
(* Properties of SpecFarFuture. *)

\* C12: when the reads before it succeed, the insert is refused as too far in
\* the future exactly if the nonce of the transaction is at least the state
\* nonce plus 2000; the refusal leaves every field of the pool as it was, and
\* a nonce of the state nonce plus 1999 is not refused for that.
C12_TooFarFutureFromOffset ==
    Idle =>
        \A transaction \in FarTxUniverse, packed \in BOOLEAN, force \in BOOLEAN :
        \A o \in FarOracleAnswers, tie \in TiesFor(Pool, transaction) :
            LET r == insert_transaction_with_readiness_check(
                         Pool, transaction, packed, force, o, now, tie)
            IN  /\ r.kind = "TooFarFuture" <=> transaction.nonce >= o.nonce + 2000
                /\ r.kind = "TooFarFuture" => r.pool = Pool
                /\ transaction.nonce = o.nonce + 1999 => r.kind # "TooFarFuture"

\* An insert at nonce 2010 has been refused for a state nonce of 10, the
\* transaction at nonce 2009 having been accepted before.
C12_Witness ==
    /\ last.op = "insert" /\ last.kind = "TooFarFuture"
    /\ last.nonce = 2010 /\ last.state_nonce = 10
    /\ "alice" \in DOMAIN deferred_pool
    /\ DOMAIN deferred_pool["alice"] = {2009}

-----------------------------------------------------------------------------
(* More properties of Spec. *)

\* C13: when the reads before it succeed, the insert is refused as stale
\* exactly if packed is false and the nonce of the transaction is below the
\* state nonce; an insert with packed set and a nonce below the state nonce
\* that succeeds leaves the transaction in the DeferredPool, packed, and its
\* sender with a stale count of at least 1 in the garbage collector.
C13_StaleIffUnpackedBelowStateNonce ==
    Idle =>
        \A transaction \in TxUniverse, packed \in BOOLEAN, force \in BOOLEAN :
        \A o \in OracleAnswers(transaction), tie \in TiesFor(Pool, transaction) :
            (~SponsorReadFails(transaction, o) /\ o.first = "ok") =>
            LET r == insert_transaction_with_readiness_check(
                         Pool, transaction, packed, force, o, now, tie)
                s == transaction.sender
            IN  /\ r.kind = "StaleNonce" <=> (~packed /\ transaction.nonce < o.nonce)
                /\ r.kind = "StaleNonce" => r.pool = Pool
                /\ (packed /\ transaction.nonce < o.nonce /\ Succeeded(r.kind)) =>
                      /\ Resident(r.pool.deferred_pool, transaction)
                      /\ r.pool.deferred_pool[s][transaction.nonce].packed
                      /\ s \in DOMAIN r.pool.garbage_collector
                      /\ r.pool.garbage_collector[s].count >= 1

\* An insert of alice's nonce 0 with packed set has succeeded for a state
\* nonce of 1, and alice has a stale count of 1.
C13_Witness ==
    /\ last.op = "insert" /\ Succeeded(last.kind)
    /\ "alice" \in DOMAIN deferred_pool
    /\ DOMAIN deferred_pool["alice"] = {0}
    /\ deferred_pool["alice"][0].packed
    /\ ready_nonces_and_balances["alice"][1] = 1
    /\ garbage_collector["alice"].count = 1

\* The victim the inner loop of collect_garbage chooses for new_tx, or None.
GcVictim(p, new_tx, tie) ==
    GcScan(p.deferred_pool, new_tx, tie,
           [gc |-> p.garbage_collector, cnt |-> GC_CHECK_COUNT, poped_nodes |-> << >>,
            victim |-> None, min_gas_price |-> new_tx.gas_price]).victim

RECURSIVE SumGas(_)
SumGas(seq) == IF seq = << >> THEN 0 ELSE Head(seq).gas + SumGas(Tail(seq))

RECURSIVE SumSize(_)
SumSize(seq) == IF seq = << >> THEN 0 ELSE Head(seq).rlp_size + SumSize(Tail(seq))

\* C15: the list pack_transactions has collected, and so the one it returns,
\* has at most num_txs transactions (none when num_txs is 0), whose gas
\* limits sum to at most block_gas_limit and whose sizes sum to at most
\* block_size_limit.
C15_PackedWithinLimits ==
    IsSome(packing) =>
        LET l == Unwrap(packing) IN
        /\ Len(l.packed_transactions) <= l.num_txs
        /\ l.num_txs = 0 => l.packed_transactions = << >>
        /\ SumGas(l.packed_transactions) <= l.block_gas_limit
        /\ SumSize(l.packed_transactions) <= l.block_size_limit

\* pack_transactions, asked for two transactions with a block_gas_limit of
\* 1, is about to return one and has put another aside.
C15_Witness ==
    /\ panic = ""
    /\ IsSome(packing)
    /\ Unwrap(packing).done
    /\ Unwrap(packing).num_txs = 2
    /\ Unwrap(packing).block_gas_limit = 1
    /\ Len(Unwrap(packing).packed_transactions) = 1
    /\ Len(Unwrap(packing).recycle_txs) >= 1

-----------------------------------------------------------------------------
(* Properties of SpecZeroWeight. *)

\* C16: a pack_transactions that runs does not abort: no step of it ends in a
\* panic, whatever the weights of the transactions in the ready_account_pool.
C16_PackNeverAborts ==
    [][IsSome(packing) => panic' = ""]_vars

-----------------------------------------------------------------------------
(* Further properties of Spec. *)

\* The oracle answers whose reads all succeed.
ReadsSucceed(transaction) ==
    {o \in OracleAnswers(transaction) :
        ~SponsorReadFails(transaction, o) /\ o.first = "ok" /\ o.second = "ok"}

\* C19 as stated: an insert of tx with packed = false that succeeds, followed
\* by an insert of tx with packed = true and force = true that succeeds,
\* leaves unpacked_transaction_count as it was between the two.
C19_RepackKeepsTheCount ==
    Idle =>
        \A transaction \in TxUniverse, force \in BOOLEAN :
        \A o1 \in ReadsSucceed(transaction), o2 \in ReadsSucceed(transaction) :
        \A tie \in TiesFor(Pool, transaction) :
            LET r1 == insert_transaction_with_readiness_check(
                          Pool, transaction, FALSE, force, o1, now, tie)
                r2 == insert_transaction_with_readiness_check(
                          r1.pool, transaction, TRUE, TRUE, o2, now, tie)
            IN  (Succeeded(r1.kind) /\ Succeeded(r2.kind)) =>
                    r2.pool.unpacked_transaction_count = r1.pool.unpacked_transaction_count

\* C19, amended: the second insert returns Updated and leaves
\* unpacked_transaction_count one less than it was between the two.
C19_RepackLowersTheCountByOne ==
    Idle =>
        \A transaction \in TxUniverse, force \in BOOLEAN :
        \A o1 \in ReadsSucceed(transaction), o2 \in ReadsSucceed(transaction) :
        \A tie \in TiesFor(Pool, transaction) :
            LET r1 == insert_transaction_with_readiness_check(
                          Pool, transaction, FALSE, force, o1, now, tie)
                r2 == insert_transaction_with_readiness_check(
                          r1.pool, transaction, TRUE, TRUE, o2, now, tie)
            IN  (Succeeded(r1.kind) /\ Succeeded(r2.kind)) =>
                    /\ r2.kind = "Updated"
                    /\ r1.pool.unpacked_transaction_count >= 1
                    /\ r2.pool.unpacked_transaction_count
                         = r1.pool.unpacked_transaction_count - 1

\* An insert has replaced alice's nonce 0 by itself, packed, bob's nonce 0
\* being the one unpacked entry left.
C19_Witness ==
    /\ last.op = "insert" /\ last.kind = "Updated"
    /\ DOMAIN txs = {<<"alice", 0, 1>>, <<"bob", 0, 1>>}
    /\ deferred_pool["alice"][0].packed
    /\ ~deferred_pool["bob"][0].packed
    /\ unpacked_transaction_count = 1

-----------------------------------------------------------------------------
(* More properties of SpecDeferredPool. *)

\* C20: every sender of the DeferredPool has at least one entry, each at the
\* nonce of its transaction; remove_lowest_nonce for a sender that is absent
\* returns None and changes nothing, for a sender with one entry it removes
\* the sender, and an insert that fails leaves the pool as it was.
C20_NoEmptyBucket ==
    /\ \A s \in DOMAIN deferred_pool :
          /\ DOMAIN deferred_pool[s] # {}
          /\ \A n \in DOMAIN deferred_pool[s] :
                /\ deferred_pool[s][n].transaction.nonce = n
                /\ deferred_pool[s][n].transaction.sender = s
    /\ \A addr \in Senders :
          LET r == remove_lowest_nonce(deferred_pool, addr) IN
          /\ addr \notin DOMAIN deferred_pool => (r.ret = None /\ r.dp = deferred_pool)
          /\ addr \in DOMAIN deferred_pool =>
                /\ IsSome(r.ret)
                /\ Cardinality(DOMAIN deferred_pool[addr]) = 1 => addr \notin DOMAIN r.dp
                /\ Cardinality(DOMAIN deferred_pool[addr]) > 1 =>
                      DOMAIN r.dp[addr] = DOMAIN deferred_pool[addr] \ {Unwrap(r.ret).transaction.nonce}
    /\ \A entry \in RunEntries, force \in BOOLEAN :
          LET r == DeferredPool_insert(deferred_pool, entry, force) IN
          r.result.kind = "Failed" => r.dp = deferred_pool

\* remove_lowest_nonce has just removed alice's last entry, and alice with it.
C20_Witness ==
    /\ last.op = "DeferredPool::remove_lowest_nonce"
    /\ IsSome(last.ret)
    /\ Unwrap(last.ret).transaction.sender = "alice"
    /\ "alice" \notin DOMAIN deferred_pool

-----------------------------------------------------------------------------
(* pack_transactions and the pool it leaves.                                 *)

PackReturns == IsSome(packing) /\ packing' = None
PoolAtPackCall == Unwrap(last.ret)

(* Every transaction of the ReadyIndex is resident and unpacked. *)
ReadyIndexSound(p) ==
    \A s \in DOMAIN p.ready_account_pool :
        LET tx == p.ready_account_pool[s].tx IN
        /\ Resident(p.deferred_pool, tx)
        /\ ~p.deferred_pool[s][tx.nonce].packed

-----------------------------------------------------------------------------
(* notify_modified_accounts and the packing that follows it.                 *)

ConsumedNonce(tx) ==
    /\ IsSome(Notified[tx.sender])
    /\ tx.nonce < Unwrap(Notified[tx.sender])

(* C18: once notify_modified_accounts has reported nonce n for a sender and  *)
(* no insert for that sender has been called since, pack_transactions        *)
(* neither collects nor returns a transaction of that sender with a nonce    *)
(* below n.                                                                  *)
C18_PackSkipsConsumedNonces ==
    /\ IsSome(packing) =>
          \A i \in 1..Len(Unwrap(packing).packed_transactions) :
              ~ConsumedNonce(Unwrap(packing).packed_transactions[i])
    /\ (packing = None /\ last.op = "pack" /\ last.kind = "Ok") =>
          \A i \in 1..Len(last.packed_transactions) :
              ~ConsumedNonce(last.packed_transactions[i])

(* alice's nonces 0 and 1 are resident, nonce 1 was reported for alice, and  *)
(* pack_transactions has returned her nonce 1 alone.                         *)
C18_Witness ==
    /\ packing = None
    /\ last.op = "pack"
    /\ last.kind = "Ok"
    /\ Notified["alice"] = Some(1)
    /\ "alice" \in DOMAIN deferred_pool
    /\ DOMAIN deferred_pool["alice"] = {0, 1}
    /\ ~deferred_pool["alice"][0].packed
    /\ Len(last.packed_transactions) = 1
    /\ last.packed_transactions[1].sender = "alice"
    /\ last.packed_transactions[1].nonce = 1

-----------------------------------------------------------------------------
(* The garbage collector's count of a sender's stale transactions.           *)

\* The entries of s whose nonce is below the nonce cached for s.
StaleEntries(p, s) ==
    {n \in DOMAIN p.deferred_pool[s] : n < p.ready_nonces_and_balances[s][1]}

(* C21: as long as the program runs, every sender of the DeferredPool has a  *)
(* ReadyInfo entry and a garbage collector node, and the count of the node   *)
(* is the number of the sender's entries whose nonce is below the cached     *)
(* nonce.                                                                    *)
C21_StaleCountIsExact ==
    panic = "" =>
        \A s \in DOMAIN deferred_pool :
            /\ s \in DOMAIN ready_nonces_and_balances
            /\ s \in DOMAIN garbage_collector
            /\ garbage_collector[s].count = Cardinality(StaleEntries(Pool, s))

(* notify_modified_accounts has reported nonce 1 for alice, whose nonces 0   *)
(* and 1 are resident: her node counts one stale transaction.                *)
C21_Witness ==
    /\ last.op = "notify"
    /\ "alice" \in DOMAIN deferred_pool
    /\ DOMAIN deferred_pool["alice"] = {0, 1}
    /\ ready_nonces_and_balances["alice"][1] = 1
    /\ garbage_collector["alice"].count = 1

-----------------------------------------------------------------------------
(* collect_garbage choosing its victim.  In a step of SpecGc the unprimed    *)
(* variables are the pool the insert was called on, last' holds the incoming *)
(* transaction and what the call removed.                                    *)

\* The insert reaches collect_garbage with the pool full.
GcRound ==
    /\ last'.op = "insert"
    /\ last'.kind \notin {"OracleFailure", "TooFarFuture", "StaleNonce"}
    /\ is_full(Pool)
    /\ ~check_sender_and_nonce_exists(deferred_pool, last'.transaction.sender,
                                      last'.transaction.nonce)

NoStaleNode(p) ==
    \A s \in DOMAIN p.deferred_pool : p.garbage_collector[s].count = 0

LowestTx(dp, s) == Unwrap(get_lowest_nonce_tx(dp, s))

\* The senders whose lowest-nonce gas price the round compares.
Compared(dp, new_tx) == DOMAIN dp \ {new_tx.sender}

StaleSenders(p) ==
    {s \in DOMAIN p.deferred_pool : p.garbage_collector[s].count > 0}

(* C29: when an insert reaches collect_garbage with the pool full and some   *)
(* sender's node counts a stale transaction, a transaction is evicted, its   *)
(* sender is one whose node counts a stale transaction, whoever sent the     *)
(* incoming one, and its nonce is below the nonce cached for that sender; so *)
(* a transaction at or above its sender's cached nonce is evicted only when  *)
(* no node counts a stale transaction.                                       *)
C29_GcTakesStaleFirst ==
    [][(GcRound /\ StaleSenders(Pool) # {}) =>
        /\ last'.removed # {}
        /\ \A e \in last'.removed :
              /\ e.sender \in StaleSenders(Pool)
              /\ e.nonce < ready_nonces_and_balances[e.sender][1]]_vars

(* alice's nonce 0 was stale in a full pool; her nonce 2 has come in and her *)
(* nonce 0 was evicted for it, though bob's transaction was cheaper than the *)
(* incoming one.                                                             *)
C29_Witness ==
    /\ last.op = "insert"
    /\ last.kind = "NewAdded"
    /\ last.transaction = SignedTransaction("alice", 2, 2)
    /\ \E g \in GcGasPrices : last.removed = {SignedTransaction("alice", 0, g)}
    /\ DOMAIN deferred_pool = {"alice", "bob"}
    /\ DOMAIN deferred_pool["alice"] = {1, 2}
    /\ deferred_pool["bob"][0].transaction.gas_price = 1

-----------------------------------------------------------------------------
(* The order in which the transactions of one sender arrive.                 *)

NewPool(cap) ==
    [capacity |-> cap, unpacked_transaction_count |-> 0, deferred_pool |-> EmptyMap,
     ready_account_pool |-> EmptyMap, ready_nonces_and_balances |-> EmptyMap,
     garbage_collector |-> EmptyMap, txs |-> EmptyMap,
     tx_sponsored_gas_map |-> EmptyMap, underflow |-> FALSE, panic |-> ""]

\* The pool after the calls are made on p by ascending nonce, each answered o.
RECURSIVE InsertAscending(_, _, _)
InsertAscending(p, calls, o) ==
    IF calls = {} THEN p
    ELSE LET c == CHOOSE x \in calls :
                     \A y \in calls : x.transaction.nonce <= y.transaction.nonce
         IN  InsertAscending(
                 insert_transaction_with_readiness_check(
                     p, c.transaction, c.packed, FALSE, o, now,
                     CHOOSE t \in Ties : TRUE).pool,
                 calls \ {c}, o)

(* C24: for one sender, one oracle answer and a pool that does not fill up,  *)
(* the pool after a set of transactions of distinct nonces was inserted in   *)
(* any order is the pool after they are inserted by ascending nonce: same    *)
(* DeferredPool, ReadyIndex slot, ReadyInfo entry, garbage collector node    *)
(* and unpacked count.                                                       *)
C24_ArrivalOrderDoesNotMatter ==
    "calls" \in DOMAIN last =>
        Pool = InsertAscending(NewPool(capacity), last.calls, last.oracle)

(* Three transactions of alice were inserted, her nonce 0 last, and her      *)
(* ReadyIndex slot holds a transaction.                                      *)
C24_Witness ==
    /\ "calls" \in DOMAIN last
    /\ Cardinality(last.calls) = 3
    /\ last.transaction.nonce = 0
    /\ last.kind = "NewAdded"
    /\ Cardinality(DOMAIN deferred_pool["alice"]) = 3
    /\ "alice" \in DOMAIN ready_account_pool

-----------------------------------------------------------------------------
(* Transactions whose gas price scales to zero.                              *)

ScalesToZero(tx) == tx.gas_price \div last.config.scaling = 0

\* A node of the ReadyAccountPool whose gas price scales to zero has weight 0,
\* and the transaction popped last does not scale to zero.
ZeroFeeIsNeverDrawn ==
    /\ \A s \in DOMAIN ready_account_pool :
          ScalesToZero(ready_account_pool[s].tx) => ready_account_pool[s].weight = 0
    /\ (last.op = "ReadyAccountPool::pop" /\ IsSome(last.ret))
          => ~ScalesToZero(Unwrap(last.ret))

-----------------------------------------------------------------------------
(* The nonce to send next.                                                   *)

HasEntry(dp, s, n) == s \in DOMAIN dp /\ n \in DOMAIN dp[s]

(* C26: get_next_nonce(sender, state_nonce) is computed for every sender and *)
(* every state nonce, and it is the smallest nonce at or above state_nonce   *)
(* at which the sender has no entry: state_nonce itself when the sender has  *)
(* no entry there or no entry at all.                                        *)
C26_NextNonceIsTheFirstGap ==
    \A s \in Senders, state_nonce \in 0..(MaxRunNonce + 1) :
        LET n == get_next_nonce(Pool, s, state_nonce) IN
        /\ n >= state_nonce
        /\ ~HasEntry(deferred_pool, s, n)
        /\ \A m \in state_nonce..(n - 1) : HasEntry(deferred_pool, s, m)

(* alice holds nonces 0, 1 and 3: from 0 the next nonce is 2, from 2 it is   *)
(* 2, from 3 it is 4; bob holds nothing and gets the state nonce back.       *)
C26_Witness ==
    /\ "alice" \in DOMAIN deferred_pool
    /\ DOMAIN deferred_pool["alice"] = {0, 1, 3}
    /\ get_next_nonce(Pool, "alice", 0) = 2
    /\ get_next_nonce(Pool, "alice", 2) = 2
    /\ get_next_nonce(Pool, "alice", 3) = 4
    /\ get_next_nonce(Pool, "bob", 1) = 1

-----------------------------------------------------------------------------
(* Packing from a pool of many ready senders, each with one transaction of   *)
(* gas 1 and size 1.  The senders arrive in the order of ResampleSenders and *)
(* pop() draws them in that order; the recheck answers Pack or Pending.      *)

ResampleSenders ==
    <<"s01", "s02", "s03", "s04", "s05", "s06", "s07",
      "s08", "s09", "s10", "s11", "s12", "s13">>

ResampleInit ==
    /\ capacity = Len(ResampleSenders)
    /\ total_received_count = 0
    /\ unpacked_transaction_count = 0
    /\ deferred_pool = EmptyMap
    /\ ready_account_pool = EmptyMap
    /\ ready_nonces_and_balances = EmptyMap
    /\ garbage_collector = EmptyMap
    /\ txs = EmptyMap
    /\ tx_sponsored_gas_map = EmptyMap
    /\ underflow = FALSE
    /\ panic = ""
    /\ now = 0
    /\ packing = None
    /\ last = Done("new", "Ok", 0, None)

ResampleInsert ==
    /\ Idle
    /\ Cardinality(DOMAIN deferred_pool) < Len(ResampleSenders)
    /\ \E transaction \in {SignedTransaction(
                               ResampleSenders[Cardinality(DOMAIN deferred_pool) + 1], 0, 1)} :
       \E o \in {Answer([sponsor |-> "none", privilege |-> "no"],
                        [first |-> "ok", nonce |-> 0, balance |-> 1, second |-> "ok"])} :
       \E r \in {insert_transaction_with_readiness_check(
                    Pool, transaction, FALSE, FALSE, o, now, CHOOSE t \in Ties : TRUE)} :
         /\ SetPool(r.pool)
         /\ last' = Done("insert", r.kind, r.min_gas_price, None)
    /\ UNCHANGED <<total_received_count, now, packing>>

(* One turn of the loop; last counts the drawn transactions of this call     *)
(* that did not fit the rest of the block and keeps the one drawn last.      *)
ResamplePackLoop ==
    /\ panic = ""
    /\ IsSome(packing)
    /\ ~Unwrap(packing).done
    /\ \E check \in {"Pack", "Pending"} :
       \E pop \in {IF DOMAIN ready_account_pool = {} THEN None
                   ELSE Some(ResampleSenders[
                            CHOOSE i \in 1..Len(ResampleSenders) :
                                /\ ResampleSenders[i] \in DOMAIN ready_account_pool
                                /\ \A j \in 1..(i - 1) :
                                       ResampleSenders[j] \notin DOMAIN ready_account_pool])} :
       \E r \in {PackIteration(Pool, Unwrap(packing), pop, check, now,
                                CHOOSE t \in Ties : TRUE)} :
         /\ SetPool(r.pool)
         /\ packing' = Some(r.l)
         /\ last' =
              LET l == Unwrap(packing)
                  over_budget == IF "over_budget" \in DOMAIN last
                                 THEN last.over_budget ELSE 0
                  tx == ready_account_pool[Unwrap(pop)].tx
              IN
              IF ~IsSome(pop)
              THEN [op |-> "pack", kind |-> "Running", min_gas_price |-> 0, ret |-> None,
                    over_budget |-> over_budget, drawn |-> None]
              ELSE [op |-> "pack", kind |-> "Running", min_gas_price |-> 0, ret |-> None,
                    over_budget |->
                        IF \/ l.block_gas_limit - l.total_tx_gas_limit < tx.gas
                           \/ l.block_size_limit - l.total_tx_size < tx.rlp_size
                        THEN over_budget + 1 ELSE over_budget,
                    drawn |-> Some(tx)]
    /\ UNCHANGED <<total_received_count, now>>

NextResample == ResampleInsert \/ PackBegin \/ ResamplePackLoop \/ PackReturn

SpecResample == ResampleInit /\ [][NextResample]_vars

-----------------------------------------------------------------------------
(* Packing with the transactions the recheck dropped kept in last and,       *)
(* after the return, the returned list.                                      *)

DropPackLoop ==
    /\ panic = ""
    /\ IsSome(packing)
    /\ ~Unwrap(packing).done
    /\ \E pop \in PopChoices(ready_account_pool), check \in PackingCheckResults :
       \E tie \in PackTies(Pool, pop) :
       \E r \in {PackIteration(Pool, Unwrap(packing), pop, check, now, tie)} :
         /\ SetPool(r.pool)
         /\ packing' = Some(r.l)
         /\ last' =
              LET first == "dropped" \notin DOMAIN last
                  dropped == IF first THEN {} ELSE last.dropped
                  l == Unwrap(packing)
              IN
              [op |-> "pack", kind |-> "Running", min_gas_price |-> 0, ret |-> None,
               dropped |->
                   IF /\ IsSome(pop)
                      /\ Unwrap(pop) \in DOMAIN ready_account_pool
                      /\ check = "Drop"
                      /\ r.l = l
                      /\ r.pool.panic = ""
                   THEN dropped \cup {ready_account_pool[Unwrap(pop)].tx}
                   ELSE dropped]
    /\ UNCHANGED <<total_received_count, now>>

DropPackReturn ==
    /\ panic = ""
    /\ IsSome(packing)
    /\ Unwrap(packing).done
    /\ \E tie \in Ties :
       \E p \in {PackEpilogue(Pool, Unwrap(packing), now, tie)} : SetPool(p)
    /\ packing' = None
    /\ last' = IF "dropped" \in DOMAIN last
               THEN [last EXCEPT !.kind = "Ok",
                                 !.ret = Some(Unwrap(packing).packed_transactions)]
               ELSE Done("pack", "Ok", 0, None)
    /\ UNCHANGED <<total_received_count, now>>

NextDrop == Insert \/ Notify \/ PackBegin \/ DropPackLoop \/ DropPackReturn

SpecDrop == Init /\ [][NextDrop]_vars

-----------------------------------------------------------------------------
(* The pending transactions of an account, asked for from the cached nonce,  *)
(* in a pool that only receives unpacked transactions, reads the state       *)
(* without failure and packs.                                                *)

PendingTxUniverse ==
    {SignedTransaction(s, n, tx_weight_scaling) : s \in Senders, n \in StateNonces}

PendingInsert ==
    /\ Idle
    /\ \E transaction \in PendingTxUniverse :
       \E o \in ZeroWeightOracleAnswers, tie \in TiesFor(Pool, transaction) :
       \E r \in {insert_transaction_with_readiness_check(
                    Pool, transaction, FALSE, FALSE, o, now, tie)} :
         /\ SetPool(r.pool)
         /\ last' = Done("insert", r.kind, r.min_gas_price, None)
    /\ UNCHANGED <<total_received_count, now, packing>>

NextPending == PendingInsert \/ PackBegin \/ PackLoop \/ PackReturn

SpecPending == Init /\ [][NextPending]_vars

-----------------------------------------------------------------------------
(* The pool with the answer of the account-state oracle, or the reported     *)
(* account, of the last operation kept in last, together with the cache      *)
(* entry the address had before it.                                          *)

NonceInsert ==
    /\ Idle
    /\ \E transaction \in PendingTxUniverse, packed \in BOOLEAN :
       \E o \in ZeroWeightOracleAnswers, tie \in TiesFor(Pool, transaction) :
       \E r \in {insert_transaction_with_readiness_check(
                    Pool, transaction, packed, FALSE, o, now, tie)} :
         /\ SetPool(r.pool)
         /\ last' = [op |-> "insert", kind |-> r.kind, min_gas_price |-> r.min_gas_price,
                     ret |-> None, address |-> transaction.sender,
                     nonce |-> o.nonce, balance |-> o.balance,
                     before |-> get_local_nonce_and_balance(Pool, transaction.sender)]
    /\ UNCHANGED <<total_received_count, now, packing>>

NonceNotify ==
    /\ Idle
    /\ \E accounts \in AccountVecs :
       \E p \in {notify_modified_accounts(Pool, accounts, now)} :
         /\ SetPool(p)
         /\ last' = [op |-> "notify", kind |-> "Ok", min_gas_price |-> 0, ret |-> None,
                     address |-> accounts[1].address,
                     nonce |-> accounts[1].nonce, balance |-> accounts[1].balance,
                     before |-> get_local_nonce_and_balance(Pool, accounts[1].address)]
    /\ UNCHANGED <<total_received_count, now, packing>>

NextNonce == NonceInsert \/ NonceNotify \/ PackBegin \/ PackLoop \/ PackReturn

SpecNonce == Init /\ [][NextNonce]_vars

PendingLimits == {None, Some(0), Some(1), Some(2)}

\* What C27 says of the answer r for address: the status, the count and the
\* length of the list.
PendingAnswerIsAsStated(p, address, maybe_limit, r) ==
    LET all == get_pending_transactions(
                   p.deferred_pool, address,
                   IF address \in DOMAIN p.ready_nonces_and_balances
                   THEN p.ready_nonces_and_balances[address][1] ELSE 0,
                   0, 0).pending_txs
    IN
    /\ r.count = Len(all)
    /\ IsSome(maybe_limit) => Len(r.txs) <= Unwrap(maybe_limit)
    /\ all = << >> => r.status = None
    /\ all # << >> =>
          /\ IsSome(r.status)
          /\ (Unwrap(r.status) = <<"Ready">>)
                => ReadyAccountPool_get(p.ready_account_pool, address) = Some(Head(all))

(* C27: between the public operations, for every address and limit,         *)
(* get_account_pending_transactions without a start nonce reports Ready for  *)
(* the first pending transaction only if the ReadyIndex holds that           *)
(* transaction for the address, reports no status and count 0 when nothing   *)
(* is pending, returns at most limit transactions and counts them all.       *)
C27_ReadyOnlyIfIndexed ==
    Idle =>
        \A address \in Senders, maybe_limit \in PendingLimits :
            PendingAnswerIsAsStated(
                Pool, address, maybe_limit,
                get_account_pending_transactions(Pool, address, None, maybe_limit))

-----------------------------------------------------------------------------
(* The room left in the pool.                                                *)

RECURSIVE StaleTotal(_, _)
StaleTotal(p, senders) ==
    IF senders = {} THEN 0
    ELSE LET s == CHOOSE x \in senders : TRUE IN
         Cardinality(StaleEntries(p, s)) + StaleTotal(p, senders \ {s})

(* C28: as long as the program runs, remaining_quota() is capacity minus     *)
(* total_deferred plus the number of entries whose nonce is below the nonce  *)
(* cached for their sender, capacity - total_deferred does not go below 0,   *)
(* and the result lies between 0 and capacity.                               *)
C28_RemainingQuota ==
    panic = "" =>
        /\ total_deferred(Pool) <= capacity
        /\ remaining_quota(Pool)
             = capacity - total_deferred(Pool) + StaleTotal(Pool, DOMAIN deferred_pool)
        /\ remaining_quota(Pool) \in 0..capacity

\* A full pool with room left: one of its entries is stale.
C28_Witness ==
    /\ panic = ""
    /\ Idle
    /\ total_deferred(Pool) = capacity
    /\ remaining_quota(Pool) > 0
    /\ remaining_quota(Pool) < Cardinality(DOMAIN garbage_collector)

-----------------------------------------------------------------------------
(* The draws of one pack_transactions call that do not fit the block.        *)

\* The drawn transactions of the running call that did not fit.
OverBudgetDrawn == IF "over_budget" \in DOMAIN last THEN last.over_budget ELSE 0

(* C30 as stated: a pack_transactions call draws at most                     *)
(* BIG_TX_RESAMPLE_TIMES_LIMIT = 10 transactions that do not fit the         *)
(* remaining gas or size of the block.                                       *)
C30_AtMostTenOverBudgetDraws ==
    OverBudgetDrawn <= BIG_TX_RESAMPLE_TIMES_LIMIT

(* C30: every drawn transaction that does not fit the remaining gas or size  *)
(* is pushed to the recycle list; while the resample budget is positive the  *)
(* draw decrements it and the loop goes on, and the draw that finds the      *)
(* budget at 0 ends the loop, so that a call draws at most                   *)
(* BIG_TX_RESAMPLE_TIMES_LIMIT + 1 = 11 such transactions.                   *)
C30_AtMostElevenOverBudgetDraws ==
    [][(/\ IsSome(packing)
        /\ IsSome(packing')
        /\ "over_budget" \in DOMAIN last'
        /\ last'.over_budget = OverBudgetDrawn + 1)
       => LET l == Unwrap(packing)
              after == Unwrap(packing')
          IN
          /\ after.recycle_txs = Append(l.recycle_txs, Unwrap(last'.drawn))
          /\ after.packed_transactions = l.packed_transactions
          /\ IF l.big_tx_resample_times_limit > 0
             THEN /\ after.big_tx_resample_times_limit = l.big_tx_resample_times_limit - 1
                  /\ ~after.done
             ELSE /\ after.big_tx_resample_times_limit = 0
                  /\ after.done
          /\ last'.over_budget <= BIG_TX_RESAMPLE_TIMES_LIMIT + 1]_vars

\* The loop has ended on its eleventh transaction that did not fit.
C30_Witness ==
    /\ IsSome(packing)
    /\ Unwrap(packing).done
    /\ Unwrap(packing).big_tx_resample_times_limit = 0
    /\ OverBudgetDrawn = BIG_TX_RESAMPLE_TIMES_LIMIT + 1
    /\ Len(Unwrap(packing).recycle_txs) >= BIG_TX_RESAMPLE_TIMES_LIMIT + 1
    /\ DOMAIN ready_account_pool # {}

-----------------------------------------------------------------------------
(* The order of the list a pack_transactions call builds.                    *)

\* The list of the running call.
PackedSoFar == IF IsSome(packing) THEN Unwrap(packing).packed_transactions ELSE << >>

(* C31: at every point of a pack_transactions call, two transactions of one  *)
(* sender in the list of packed transactions stand in strictly increasing    *)
(* nonce order, and no transaction stands in the list twice.                 *)
C31_PackedInNonceOrder ==
    \A i, j \in 1..Len(PackedSoFar) :
        i < j =>
            /\ PackedSoFar[i] # PackedSoFar[j]
            /\ PackedSoFar[i].sender = PackedSoFar[j].sender
                  => PackedSoFar[i].nonce < PackedSoFar[j].nonce

-----------------------------------------------------------------------------
(* The transactions the packing recheck answers Drop for.                    *)

\* A pack_transactions call has returned after at least one turn of its loop.
DropPackReturned ==
    /\ panic = ""
    /\ last.op = "pack"
    /\ last.kind = "Ok"
    /\ "dropped" \in DOMAIN last

\* The senders of the transactions in the sequence list.
SendersOf(list) == {list[i].sender : i \in 1..Len(list)}

\* The transactions the running or returned call has dropped.
Dropped == IF "dropped" \in DOMAIN last THEN last.dropped ELSE {}

\* What C32 says of the dropped transactions once the call has returned.
DroppedAsStated ==
    \A tx \in Dropped :
        /\ \A i \in 1..Len(Unwrap(last.ret)) : Unwrap(last.ret)[i] # tx
        /\ check_sender_and_nonce_exists(deferred_pool, tx.sender, tx.nonce)
        /\ deferred_pool[tx.sender][tx.nonce].transaction = tx
        /\ tx.hash \in DOMAIN txs
        /\ txs[tx.hash] = tx
        /\ tx.sender \notin SendersOf(Unwrap(last.ret))
              => ReadyAccountPool_get(ready_account_pool, tx.sender) # Some(tx)

(* C32: the pass of the loop in which the recheck answers Drop changes       *)
(* neither the DeferredPool, nor the hash map, nor the unpacked count; and   *)
(* when pack_transactions has returned, a dropped transaction is not in the  *)
(* returned list, is still in the DeferredPool and in the hash map, and is   *)
(* not the ReadyIndex entry of its sender unless a transaction of that       *)
(* sender is in the returned list.                                           *)
C32_DroppedStaysDeferred ==
    [][/\ (IsSome(packing) /\ IsSome(packing') /\ Dropped' # Dropped)
          => /\ deferred_pool' = deferred_pool
             /\ txs' = txs
             /\ unpacked_transaction_count' = unpacked_transaction_count
             /\ Unwrap(packing') = Unwrap(packing)
       /\ DropPackReturned' => DroppedAsStated']_vars

-----------------------------------------------------------------------------
(* What notify_modified_accounts leaves alone.                               *)

\* m without its entry for the key k.
Without(m, k) == [x \in DOMAIN m \ {k} |-> m[x]]

\* The pool q differs from the pool p at most in the ReadyInfo entry, the
\* collector's node and the ReadyIndex slot of the address a.
OnlyReadinessOf(p, q, a) ==
    /\ q.capacity = p.capacity
    /\ q.unpacked_transaction_count = p.unpacked_transaction_count
    /\ q.deferred_pool = p.deferred_pool
    /\ q.txs = p.txs
    /\ q.tx_sponsored_gas_map = p.tx_sponsored_gas_map
    /\ total_deferred(q) = total_deferred(p)
    /\ Without(q.ready_nonces_and_balances, a) = Without(p.ready_nonces_and_balances, a)
    /\ Without(q.garbage_collector, a) = Without(p.garbage_collector, a)
    /\ Without(q.ready_account_pool, a) = Without(p.ready_account_pool, a)

(* C33: between the public operations, notify_modified_accounts with one     *)
(* account leaves the DeferredPool, the hash maps, total_deferred and the    *)
(* unpacked count as they are, whatever the reported nonce; it changes at    *)
(* most the ReadyInfo entry, the collector's node and the ReadyIndex slot of *)
(* the reported address, keeps the timestamp of a node that exists, and      *)
(* changes nothing for an address without a DeferredPool bucket.             *)
C33_NotifyKeepsTheTransactions ==
    Idle =>
        \A accounts \in AccountVecs :
            LET a == accounts[1].address
                q == notify_modified_accounts(Pool, accounts, now)
            IN
            /\ q.panic = ""
            /\ OnlyReadinessOf(Pool, q, a)
            /\ a \in DOMAIN garbage_collector
                  => /\ a \in DOMAIN q.garbage_collector
                     /\ q.garbage_collector[a].timestamp = garbage_collector[a].timestamp
            /\ a \notin DOMAIN deferred_pool => q = Pool

-----------------------------------------------------------------------------
(* Inserting at a nonce the sender already holds.                            *)

\* The transactions of GcTxUniverse whose sender and nonce the pool holds.
Present == {tx \in GcTxUniverse :
               check_sender_and_nonce_exists(deferred_pool, tx.sender, tx.nonce)}

\* The pool r.pool holds what the pool p holds, but for the entry of
\* transaction's sender and nonce.
SameButEntry(p, r, transaction) ==
    /\ total_deferred(r.pool) = total_deferred(p)
    /\ r.pool.garbage_collector = p.garbage_collector
    /\ r.pool.ready_nonces_and_balances = p.ready_nonces_and_balances
    /\ DOMAIN r.pool.deferred_pool = DOMAIN p.deferred_pool
    /\ \A s \in DOMAIN p.deferred_pool :
          /\ DOMAIN r.pool.deferred_pool[s] = DOMAIN p.deferred_pool[s]
          /\ \A n \in DOMAIN p.deferred_pool[s] :
                (s # transaction.sender \/ n # transaction.nonce)
                    => r.pool.deferred_pool[s][n] = p.deferred_pool[s][n]

(* C34: in every state of the pool, full or not,                             *)
(* insert_transaction_without_readiness_check of a transaction whose sender  *)
(* and nonce are present does not answer that the pool is full, leaves       *)
(* total_deferred, the garbage collector and every other entry as they are,  *)
(* and replaces the entry when the insert is forced or pays a higher gas     *)
(* price.                                                                    *)
C34_ReplaceNeedsNoRoom ==
    \A transaction \in Present, packed \in BOOLEAN, force \in BOOLEAN :
        LET prev == deferred_pool[transaction.sender][transaction.nonce]
            r == insert_transaction_without_readiness_check(
                     Pool, transaction, packed, force, Some(<<0, 0>>), <<0, 0>>, now,
                     CHOOSE t \in GcTies(garbage_collector) : TRUE)
        IN
        /\ r.result.kind \in {"Updated", "Failed"}
        /\ r.pool.panic = ""
        /\ SameButEntry(Pool, r, transaction)
        /\ (force \/ transaction.gas_price > prev.transaction.gas_price)
              => /\ r.result.kind = "Updated"
                 /\ r.pool.deferred_pool[transaction.sender][transaction.nonce].transaction
                      = transaction
                 /\ transaction.hash \in DOMAIN r.pool.txs

\* A replacement in a full pool has succeeded and only the replaced
\* transaction has left the pool.
C34_Witness ==
    /\ last.op = "insert"
    /\ last.kind = "Updated"
    /\ "removed" \in DOMAIN last
    /\ is_full(Pool)
    /\ Cardinality(last.removed) = 1
    /\ \A tx \in last.removed :
          /\ tx.sender = last.transaction.sender
          /\ tx.nonce = last.transaction.nonce
          /\ tx.gas_price < last.transaction.gas_price

-----------------------------------------------------------------------------
(* The re-inserts pack_transactions makes.                                   *)

\* The transactions a step of the running call hands to
\* insert_transaction_without_readiness_check: the one the pass of the loop
\* appends to the list, or the whole list when the call returns.
Reinserted ==
    IF ~IsSome(packing) THEN {}
    ELSE IF IsSome(packing')
         THEN {Unwrap(packing').packed_transactions[i] :
                  i \in (Len(PackedSoFar) + 1)..Len(Unwrap(packing').packed_transactions)}
         ELSE {PackedSoFar[i] : i \in 1..Len(PackedSoFar)}

(* C35: every transaction pack_transactions re-inserts, as packed in the     *)
(* loop or as unpacked in the rewrite after it, has its sender and nonce in  *)
(* the DeferredPool when the step begins, so that the re-insert ends in the  *)
(* arm Updated: total_deferred does not change and the unwrap of the arm     *)
(* NewAdded is not reached.                                                  *)
C35_PackOnlyUpdates ==
    [][(panic = "" /\ IsSome(packing))
       => /\ \A tx \in Reinserted :
               check_sender_and_nonce_exists(deferred_pool, tx.sender, tx.nonce)
          /\ panic' # "unwrap"
          /\ Cardinality(DOMAIN txs') = total_deferred(Pool)]_vars

-----------------------------------------------------------------------------
(* The assertion of collect_garbage.                                         *)

(* C36: assert_eq!(victim.count, 0) never fails: no call of collect_garbage  *)
(* finds a victim whose lowest nonce is at or above the nonce cached for it  *)
(* (0 without a cache entry) and whose node has a count other than 0.        *)
C36_GcAssertionHolds == panic # "assert_eq"

\* An insert has made collect_garbage evict a transaction that was not
\* executed: its nonce is at or above the nonce cached for its sender.
C36_Witness ==
    /\ panic = ""
    /\ last.op = "insert"
    /\ "removed" \in DOMAIN last
    /\ \E tx \in last.removed :
          /\ tx.sender # last.transaction.sender
          /\ tx.sender \in DOMAIN ready_nonces_and_balances
          /\ tx.nonce >= ready_nonces_and_balances[tx.sender][1]

-----------------------------------------------------------------------------
(* The senders the three structures know.                                    *)

-----------------------------------------------------------------------------
(* The nonce the ReadyInfo cache holds for a sender.                         *)

\* The last operation was an insert that stored its transaction, or a
\* report on an address, and the address has a DeferredPool bucket.
CacheWritten ==
    /\ panic = ""
    /\ "before" \in DOMAIN last
    /\ last.op = "insert" => last.kind \in {"NewAdded", "Updated"}
    /\ last.address \in DOMAIN deferred_pool

-----------------------------------------------------------------------------
(* What one insert evicts.                                                   *)

(* C39: an insert frees at most one (sender, nonce) slot of the DeferredPool, *)
(* only when it returns having stored its transaction as a new entry, and    *)
(* total_deferred is then what it was before the insert.                     *)
C39_EvictsOnlyForANewEntry ==
    [][(~IsSome(packing) /\ last'.op = "insert" /\ panic' = "")
          => LET evicted == Slots(deferred_pool) \ Slots(deferred_pool')
             IN  /\ Cardinality(evicted) <= 1
                 /\ evicted # {}
                      => /\ last'.kind = "NewAdded"
                         /\ Cardinality(DOMAIN txs') = Cardinality(DOMAIN txs)]_vars

-----------------------------------------------------------------------------
(* clear.                                                                    *)

(* C40: clear() returns and leaves the pool empty: total_deferred,           *)
(* total_unpacked, total_received and total_ready_accounts are 0, the        *)
(* ReadyInfo cache, the GC heap and the sponsor map are empty, and capacity  *)
(* is what it was, also when every ReadyIndex entry has weight 0.            *)
C40_ClearEmptiesThePool ==
    last.op = "clear"
        => /\ panic = ""
           /\ total_deferred(Pool) = 0
           /\ unpacked_transaction_count = 0
           /\ total_received_count = 0
           /\ DOMAIN ready_account_pool = {}
           /\ DOMAIN deferred_pool = {}
           /\ DOMAIN ready_nonces_and_balances = {}
           /\ DOMAIN garbage_collector = {}
           /\ DOMAIN tx_sponsored_gas_map = {}
           /\ capacity = last.capacity

====
